---------------------------- MODULE Spec2Model ----------------------------
(***************************************************************************)
(* A model of ilastik's data selection operators                           *)
(* (ilastik/applets/dataSelection/opDataSelection.py):                     *)
(*                                                                         *)
(*   - OpDataSelection: the single-image operator whose setupOutputs       *)
(*     builds a chain of internal operators (reader, metadata injector,    *)
(*     axis reorderers) and whose internalCleanup tears it down;           *)
(*   - OpMultiLaneDataSelectionGroup: the multi-lane wrapper whose         *)
(*     addLane / removeLane guard the base class's lane insertion and      *)
(*     removal.                                                            *)
(***************************************************************************)
EXTENDS Integers, Sequences, FiniteSets, TLC

(***************************************************************************)
(* Bounds of the model.                                                    *)
(***************************************************************************)
\* Largest number of internal operators that failed setupOutputs calls may
\* leave behind before the model stops injecting further faults.
MaxLeaked == 1
\* Largest number of lanes of the multi-lane wrapper.
MaxLanes == 3
\* Largest number of re-entrant addLane calls made from the handlers of one
\* insertSlot signal.
MaxNested == 2

(***************************************************************************)
(* Values.                                                                 *)
(***************************************************************************)
\* Python's None; also the value of a slot that holds nothing.
None == "None"
\* An output slot with no upstream partner; a connected one provides a
\* tagged shape and the nickname found in its metadata.
Disconnected == [connected |-> FALSE, keys |-> <<>>, extents |-> <<>>, nickname |-> None]
Provides(keys, extents, nickname) ==
    [connected |-> TRUE, keys |-> keys, extents |-> extents, nickname |-> nickname]
\* A value slot (AllowLabels) that holds nothing, or a value.
Unset == [ready |-> FALSE, value |-> FALSE]
Value(v) == [ready |-> TRUE, value |-> v]
\* DatasetInfo.axistags = None
NoAxistags == <<>>
\* No exception in flight, and the exceptions setupOutputs can let through.
NoExc == [type |-> None, appletName |-> None]
Raised(type) == [type |-> type, appletName |-> None]
DatasetConstraintError(appletName) ==
    [type |-> "DatasetConstraintError", appletName |-> appletName]

\* DatasetInfo.Location
FileSystem == "FileSystem"
ProjectInternal == "ProjectInternal"
PreloadedArray == "PreloadedArray"
Location == {FileSystem, ProjectInternal, PreloadedArray}

\* The input slots of OpDataSelection that register internalCleanup for
\* their unready notification, and the ones that are not optional.
CleanupInputs == {"ProjectFile", "ProjectDataGroup", "WorkingDirectory", "Dataset"}
MandatoryInputs == {"WorkingDirectory", "Dataset"}

Range(s) == {s[i] : i \in 1..Len(s)}

(***************************************************************************)
(* Tagged shapes: a sequence of axis keys and, position by position, the   *)
(* extent of each axis.                                                    *)
(***************************************************************************)
Tagged(keys, extents) == [keys |-> keys, extents |-> extents]

\* vigra.AxisTags.index(key): the 0-based position of the key, and the
\* number of axes when the key is absent.
AxisIndex(keys, k) ==
    IF k \in Range(keys)
    THEN (CHOOSE i \in 1..Len(keys) : keys[i] = k /\ \A j \in 1..(i-1) : keys[j] # k) - 1
    ELSE Len(keys)

\* meta.getTaggedShape()[k]
Extent(p, k) == p.extents[AxisIndex(p.keys, k) + 1]

\* OpReorderAxes: the output has exactly the axes of the requested order;
\* an axis the input lacks is added with extent 1.
ReorderAxes(p, order) ==
    Tagged(order, [i \in 1..Len(order) |->
                      IF order[i] \in Range(p.keys) THEN Extent(p, order[i]) ELSE 1])

\* OpReorderAxes can drop an axis of its input only if the axis is a singleton.
ReorderAllowed(p, order) ==
    \A i \in 1..Len(p.keys) : p.extents[i] > 1 => p.keys[i] \in Range(order)

(***************************************************************************)
(* Inputs explored.                                                        *)
(***************************************************************************)
\* The files (or arrays) a DatasetInfo may point to, and what the reading
\* operator finds there: the axes in the stored order, the nickname the
\* reader puts in its metadata (None: it provides none), and whether the
\* project file holds a copy under the dataset's id.
File(keys, extents, nickname, inProject) ==
    [shape |-> Tagged(keys, extents), nickname |-> nickname, inProject |-> inProject]

Files ==
    ( "yxc"    :> File(<<"y", "x", "c">>, <<2, 2, 2>>, None, FALSE)
   @@ "cyx"    :> File(<<"c", "y", "x">>, <<2, 2, 2>>, None, TRUE)
   @@ "cyx.h5" :> File(<<"c", "y", "x">>, <<2, 2, 2>>, "readernick", TRUE)
   @@ "ycx"    :> File(<<"y", "c", "x">>, <<2, 1, 2>>, None, FALSE)
   @@ "yx"     :> File(<<"y", "x">>, <<2, 2>>, None, FALSE)
   @@ "zyx"    :> File(<<"z", "y", "x">>, <<1, 2, 2>>, None, FALSE)
   @@ "zyxc"   :> File(<<"z", "y", "x", "c">>, <<2, 2, 2, 1>>, None, FALSE)
   @@ "tyxc"   :> File(<<"t", "y", "x", "c">>, <<2, 2, 2, 2>>, None, FALSE) )

NoFile == File(<<>>, <<>>, None, FALSE)
Source(path) == IF path \in DOMAIN Files THEN Files[path] ELSE NoFile

\* The forceAxisOrder argument of the constructor: False (here the empty
\* list, which Python also treats as false) or a list of allowed orders.
ForceChoices ==
    { <<>>,
      << <<"z", "y", "x", "c">>, <<"y", "x", "c">> >>,
      << <<"c", "y", "x">>, <<"y", "x">> >> }

\* The DatasetInfo objects put on the Dataset slot.  axistags is what the
\* user may have set (NoAxistags: not set).
DatasetInfo(location, axistags, nickname, allowLabels, filePath) ==
    [location |-> location, axistags |-> axistags, nickname |-> nickname,
     allowLabels |-> allowLabels, filePath |-> filePath]

\* Datasets that differ in where they are read from and how they are named:
\* unnamed, and named by the reader.
WiringInfos ==
    { DatasetInfo(l, NoAxistags, v[1], TRUE, v[2]) :
        l \in Location, v \in { <<"", "cyx">>, <<"nick", "cyx.h5">> } }

\* Datasets that differ in their axes.
AxesInfos ==
    { DatasetInfo(FileSystem, a, "nick", FALSE, f) :
        a \in {NoAxistags, <<"c", "y", "x">>, <<"z", "y", "x">>},
        f \in DOMAIN Files }

\* Where a call made by setupOutputs into an internal or a downstream
\* operator may raise: configuring the reader (lines 255-256, 280, 286-288),
\* wiring the metadata injector (336-337), wiring an axis reorderer
\* (371-372, 388-389), connecting Image to downstream consumers (394).
Faults == {"none", "reader", "injector", "reorder", "connect"}

(***************************************************************************)
(* State.                                                                  *)
(***************************************************************************)
VARIABLES
    forceAxisOrder,       \* OpDataSelection.forceAxisOrder
    ready,                \* which input slots of OpDataSelection are ready
    Dataset,              \* the DatasetInfo object held by the Dataset slot
    _opReaders,           \* OpDataSelection._opReaders
    children,             \* the live internal operators (parent=self)
    Image,                \* output slot Image: Disconnected or what it provides
    _NonTransposedImage,  \* output slot _NonTransposedImage
    AllowLabels,          \* output slot AllowLabels: None or its value
    ImageName,            \* output slot ImageName: None or its value
    call                  \* history: the last operation and what it did

\* The multi-lane wrapper (OpMultiLaneDataSelectionGroup).
VARIABLES
    innerOperators,   \* the wrapper's inner operators, one per lane
    lanePc,           \* "idle", or "insertSlot" while an outer addLane is
                      \* delivering the insertSlot signal of its new lane
    laneCall          \* history: the outermost call in progress or last made

laneVars == <<innerOperators, lanePc, laneCall>>

\* OpIIBoostFeatureSelection and its internal operators.
VARIABLES
    outputShape,      \* OutputImage.meta.shape (= CachedOutputImage.meta.shape)
    dirtied,          \* per output slot, the regions setDirty was called with
                      \* during the last change of InputImage
    dirtyCall,        \* history: the last change of InputImage
    execCall          \* history: the last execute() and the buffer it filled

iiboostVars == <<outputShape, dirtied, dirtyCall, execCall>>

\* Concurrent requests to OpIIBoostFeatureSelection.
VARIABLES
    executing,        \* per request, the execute() that serves it
    cacheBlock,       \* one block of opHessianEigenvectorCache
    convertExecutes   \* per requested slot, the number of calls of
                      \* opConvertToChannels.execute made for its requests

requestVars == <<executing, cacheBlock, convertExecutes>>

\* StructuredTrackingGui and its applet.
VARIABLES
    busy,             \* applet.busy
    TrackButton,      \* whether _drawer.TrackButton is enabled
    trackRequests     \* the requests made by _onTrackButtonPressed

trackVars == <<busy, TrackButton, trackRequests>>

\* ManualTrackingWorkflow, its applets and its shell.
VARIABLES
    appletBusy,       \* the busy flag of each applet
    graph,            \* the slots handleAppletStateUpdateRequested reads
    shell             \* what the shell was last told to enable

workflowVars == <<appletBusy, graph, shell>>

\* One run of ilastik_main.main.
VARIABLES
    main

mainVars == <<main>>

\* DatasetInfo objects, OpDataSelectionGroup and the tracking operators.
VARIABLES
    datasetInfo,      \* one DatasetInfo object, the uuids drawn so far, and
                      \* history: the last operation on it
    opGroup,          \* one OpDataSelectionGroup, and history: its last
                      \* setupOutputs
    axisOrder,        \* history: the last forced axis order chosen for a
                      \* list of allowed orders and a dataset
    annotations,      \* OpStructuredTracking: the annotations of one crop for
                      \* one track, and history: the last call that read them
    learning,         \* OpStructuredTracking: the weight slots and one call
                      \* of _runStructuredLearning
    chaingraph        \* OpChaingraphTracking: the Parameters and EventsVector
                      \* slots, and history: the last call of track

opVars == <<datasetInfo, opGroup, axisOrder, annotations, learning, chaingraph>>

\* The components other than the data selection operators.
appVars == <<iiboostVars, requestVars, trackVars, workflowVars, mainVars, opVars>>

dsVars == <<forceAxisOrder, ready, Dataset, _opReaders, children, Image,
            _NonTransposedImage, AllowLabels, ImageName, call>>

Reverse(s) == [i \in 1..Len(s) |-> s[Len(s) + 1 - i]]

\* The part of the operator's state that internalCleanup and setupOutputs
\* read and write, as one record; exc is the exception in flight.
OpState ==
    [ readers |-> _opReaders, children |-> children, Image |-> Image,
      NonT |-> _NonTransposedImage, AllowLabels |-> AllowLabels,
      ImageName |-> ImageName, info |-> Dataset,
      provider |-> Disconnected, seen |-> Disconnected,
      created |-> <<>>, cleaned |-> <<>>, exc |-> NoExc ]

\* A variant of internalCleanup that cleans the operators up in the order
\* of their creation.
internalCleanupInCreationOrder(S) ==
    IF Len(S.readers) > 0
    THEN [S EXCEPT !.Image = Disconnected,
                   !.NonT = Disconnected,
                   !.children = @ \ Range(S.readers),
                   !.cleaned = @ \o S.readers,
                   !.readers = <<>>]
    ELSE S

(***************************************************************************)
(* OpDataSelection.internalCleanup                                         *)
(***************************************************************************)
internalCleanup(S) ==
    IF Len(S.readers) > 0
    THEN [S EXCEPT !.Image = Disconnected,
                   !.NonT = Disconnected,
                   !.children = @ \ Range(S.readers),
                   !.cleaned = @ \o Reverse(S.readers),
                   !.readers = <<>>]
    ELSE S

(***************************************************************************)
(* OpDataSelection.setupOutputs, stage by stage.  Each stage takes the     *)
(* operator's state and returns it as the stage leaves it; a stage that    *)
(* raises sets exc and the stages after it are skipped.                    *)
(***************************************************************************)
\* A new internal operator (parent=self): an identity not in use.
NewOp(S, kind) ==
    LET used == {o.id : o \in S.children}
    IN  [id |-> CHOOSE n \in 0..Cardinality(used) : n \notin used, kind |-> kind]

Create(S, op) ==
    [S EXCEPT !.children = @ \cup {op}, !.created = Append(@, op)]

\* Lines 246-290: choose and configure the reader, then record it.
StageReader(S, info, src, fault, projectFileReady, projectDataGroupReady) ==
    LET wantsProject == info.location = ProjectInternal /\ projectFileReady
        datasetInProject == wantsProject /\ src.inProject
        kind == IF datasetInProject THEN "OpStreamingHdf5Reader"
                ELSE IF info.location = PreloadedArray THEN "OpArrayPiper"
                ELSE "OpInputDataReader"
        opReader == NewOp(S, kind)
        T == Create(S, opReader)
    IN  IF wantsProject /\ ~projectDataGroupReady
        THEN [S EXCEPT !.exc = Raised("SlotNotReadyError")]
        ELSE IF fault = "reader"
        THEN [T EXCEPT !.exc = Raised("ReaderError")]
        ELSE [T EXCEPT !.readers = Append(@, opReader),
                       !.provider = Provides(src.shape.keys, src.shape.extents,
                                             src.nickname)]

\* Lines 314-324: the user's axistags must have the provider's dimensionality.
StageMetadata(S, info) ==
    IF info.axistags # NoAxistags /\ Len(info.axistags) # Len(S.provider.keys)
    THEN [S EXCEPT !.exc = Raised("AxistagsDimensionalityError")]
    ELSE S

\* Lines 335-341: the metadata injector overrides the axistags with the
\* user's, and _NonTransposedImage is connected to it.
StageInjector(S, info, fault) ==
    LET opMetadataInjector == NewOp(S, "OpMetadataInjector")
        T == Create(S, opMetadataInjector)
        providerSlot == IF info.axistags # NoAxistags
                        THEN [S.provider EXCEPT !.keys = info.axistags]
                        ELSE S.provider
    IN  IF fault = "injector"
        THEN [T EXCEPT !.exc = Raised("InjectorError")]
        ELSE [T EXCEPT !.readers = Append(@, opMetadataInjector),
                       !.provider = providerSlot,
                       !.NonT = providerSlot]

\* Line 352-353: the axes of extent > 1.
minimal_axes(p) == {p.keys[i] : i \in {j \in 1..Len(p.keys) : p.extents[j] > 1}}

\* A variant of candidate_orders that keeps every allowed order.
candidate_ordersUnfiltered(force, p) == force

\* Lines 357-359: the allowed orders that contain all of them.
candidate_orders(force, p) ==
    SelectSeq(force, LAMBDA order : minimal_axes(p) \subseteq Range(order))

\* A variant of output_order that takes the first candidate in the list.
output_orderFirstListed(candidates) == candidates[1]

\* Line 367: sorted(candidate_orders, key=len)[0]; the sort is stable.
output_order(candidates) ==
    candidates[CHOOSE i \in 1..Len(candidates) :
                 \A j \in 1..Len(candidates) :
                    /\ Len(candidates[i]) <= Len(candidates[j])
                    /\ (j < i => Len(candidates[j]) > Len(candidates[i]))]

\* Wire an OpReorderAxes behind the provider (lines 370-374, 379-391).
Reordered(S, order, fault) ==
    LET op5 == NewOp(S, "OpReorderAxes")
        T == Create(S, op5)
    IN  IF fault = "reorder" \/ ~ReorderAllowed(S.provider, order)
        THEN [T EXCEPT !.exc = Raised("ReorderError")]
        ELSE [T EXCEPT !.readers = Append(@, op5),
                       !.provider = [S.provider EXCEPT
                                        !.keys = order,
                                        !.extents = ReorderAxes(S.provider, order).extents]]

\* Lines 343-374: with forceAxisOrder, reorder to the shortest allowed order
\* that keeps every non-singleton axis, or refuse the dataset.  seen records
\* the tagged shape the check looked at (line 350).
StageForceAxisOrder(S, force, fault) ==
    LET T == [S EXCEPT !.seen = S.provider]
    IN  IF force = <<>>
        THEN S
        ELSE IF Len(candidate_orders(force, T.provider)) = 0
        THEN [T EXCEPT !.exc = DatasetConstraintError("DataSelection")]
        ELSE Reordered(T, output_order(candidate_orders(force, T.provider)), fault)

\* A variant of channelNotLast that takes a missing channel axis for one
\* that needs no reordering.
channelNotLastIfPresent(keys) == AxisIndex(keys, "c") < Len(keys) - 1

\* Line 378: the channel axis is not last, or is missing.
channelNotLast(keys) == AxisIndex(keys, "c") # Len(keys) - 1

\* Lines 380-388: the keys with 'c' removed if present, then appended.
channelLastOrder(keys) == SelectSeq(keys, LAMBDA k : k # "c") \o <<"c">>

\* Lines 376-391.
StageChannelLast(S, fault) ==
    IF channelNotLast(S.provider.keys)
    THEN Reordered(S, channelLastOrder(S.provider.keys), fault)
    ELSE S

\* Lines 393-406: connect Image, set AllowLabels, adopt the reader's
\* nickname in the DatasetInfo, set ImageName.
StageOutputs(S, fault) ==
    LET T == [S EXCEPT !.Image = S.provider]
        nickname == IF T.Image.nickname # None THEN T.Image.nickname
                    ELSE S.info.nickname
        imageName == IF nickname = "" THEN S.info.filePath ELSE nickname
    IN  IF fault = "connect"
        THEN [T EXCEPT !.exc = Raised("DownstreamError")]
        ELSE [T EXCEPT !.AllowLabels = Value(S.info.allowLabels),
                       !.info = [@ EXCEPT !.nickname = nickname],
                       !.ImageName = imageName]

\* Run a stage unless an exception is already in flight.
Then(S, next) == IF S.exc # NoExc THEN S ELSE next

\* Lines 240-410.  The except clause runs internalCleanup and re-raises.
setupOutputs(S0, fault, force, projectFileReady, projectDataGroupReady) ==
    LET S1 == internalCleanup(S0)
        S2 == StageReader(S1, S1.info, Source(S1.info.filePath), fault, projectFileReady,
                          projectDataGroupReady)
        S3 == Then(S2, StageMetadata(S2, S2.info))
        S4 == Then(S3, StageInjector(S3, S3.info, fault))
        S5 == Then(S4, StageForceAxisOrder(S4, force, fault))
        S6 == Then(S5, StageChannelLast(S5, fault))
        S7 == Then(S6, StageOutputs(S6, fault))
    IN  IF S7.exc # NoExc THEN internalCleanup(S7) ELSE S7

(***************************************************************************)
(* The operations on one OpDataSelection.                                  *)
(***************************************************************************)
\* The Dataset slot holding nothing.
NoDataset == DatasetInfo(None, NoAxistags, "", FALSE, "")

\* The record kept of the last operation: what it was and what it did.
\* For a disconnect: the operators _opReaders held before it and the order
\* in which they were cleaned up.  For a setupOutputs call: the DatasetInfo
\* as it was when the call began, the operators the call created, the tagged shape
\* its axis-order check saw and the exception it raised.  repeat says that
\* the call directly followed a successful setupOutputs with the same
\* inputs; the wiring before the call is kept for such a call.
CallRecord(op, slot, S, given, repeat) ==
    [ op |-> op, slot |-> slot,
      preReaders |-> IF op = "disconnect" THEN _opReaders ELSE <<>>,
      cleaned |-> IF op = "disconnect" THEN S.cleaned ELSE <<>>,
      given |-> given,
      repeat |-> repeat,
      preCount |-> IF repeat THEN Cardinality(children) ELSE 0,
      preImage |-> IF repeat THEN Image ELSE Disconnected,
      preNonT |-> IF repeat THEN _NonTransposedImage ELSE Disconnected,
      seen |-> S.seen, created |-> S.created, exc |-> S.exc ]

DsInit ==
    /\ forceAxisOrder \in ForceChoices
    /\ ready = [s \in CleanupInputs |-> FALSE]
    /\ Dataset = NoDataset
    /\ _opReaders = <<>>
    /\ children = {}
    /\ Image = Disconnected
    /\ _NonTransposedImage = Disconnected
    /\ AllowLabels = Unset
    /\ ImageName = None
    /\ call = [ op |-> "init", slot |-> None, preReaders |-> <<>>,
                given |-> NoDataset, repeat |-> FALSE, preCount |-> 0,
                preImage |-> Disconnected, preNonT |-> Disconnected,
                seen |-> Disconnected, created |-> <<>>, cleaned |-> <<>>,
                exc |-> NoExc ]

\* Write the operator's state back.
Store(S) ==
    /\ _opReaders' = S.readers
    /\ children' = S.children
    /\ Image' = S.Image
    /\ _NonTransposedImage' = S.NonT
    /\ AllowLabels' = S.AllowLabels
    /\ ImageName' = S.ImageName

\* The internal operators that no longer belong to the chain in _opReaders.
Leaked == children \ Range(_opReaders)

\* An input slot is connected or given a (new) value.  Once the mandatory
\* inputs are ready the framework calls setupOutputs before the call returns;
\* the DatasetInfo object on the Dataset slot is shared with setupOutputs,
\* which may write to it.
ConnectInput(slot, info, fault) ==
    LET nowReady == [ready EXCEPT ![slot] = TRUE]
        configured == \A m \in MandatoryInputs : nowReady[m]
        given == IF slot = "Dataset" THEN info ELSE Dataset
        S0 == [OpState EXCEPT !.info = given]
        S == IF configured
             THEN setupOutputs(S0, fault, forceAxisOrder,
                               nowReady["ProjectFile"], nowReady["ProjectDataGroup"])
             ELSE S0
        repeat == /\ configured
                  /\ call.op = "setupOutputs" /\ call.exc = NoExc
                  /\ given = Dataset /\ nowReady = ready /\ fault = "none"
    IN  /\ slot # "Dataset" => info = Dataset
        /\ (slot = "Dataset" /\ ~ready["Dataset"]) => info # NoDataset
        /\ ~configured => fault = "none"
        /\ fault \in {"reader", "injector", "reorder"} => Cardinality(Leaked) < MaxLeaked
        /\ ready' = nowReady
        /\ Dataset' = S.info
        /\ Store(S)
        /\ call' = CallRecord(IF configured THEN "setupOutputs" ELSE "connect",
                              slot, S, given, repeat)
        /\ UNCHANGED <<forceAxisOrder, laneVars, appVars>>

\* An input slot that was ready is disconnected: its unready notification
\* calls internalCleanup before disconnect returns.
DisconnectInput(slot) ==
    LET S == internalCleanup(OpState)
    IN  /\ ready[slot]
        /\ ready' = [ready EXCEPT ![slot] = FALSE]
        /\ Dataset' = IF slot = "Dataset" THEN NoDataset ELSE Dataset
        /\ Store(S)
        /\ call' = CallRecord("disconnect", slot, S, Dataset, FALSE)
        /\ UNCHANGED <<forceAxisOrder, laneVars, appVars>>

(***************************************************************************)
(* OpMultiLaneDataSelectionGroup: the lanes of the multi-lane wrapper.     *)
(***************************************************************************)
\* Lines 521-522: the inputs every inner operator shares with the wrapper.
broadcastingSlotNames ==
    {"ProjectFile", "ProjectDataGroup", "WorkingDirectory", "DatasetRoles"}

\* A new inner operator: an object that is none of the given ones, with its
\* broadcast inputs connected to the wrapper's.
NewLane(existing) ==
    LET used == {op.id : op \in existing}
    IN  [id |-> CHOOSE n \in 0..Cardinality(used) : n \notin used,
         broadcast |-> broadcastingSlotNames]

\* OpMultiLaneWrapper.addLane, the base class: a new replica at laneIndex,
\* the lanes from there on moving up by one.
baseAddLane(ops, laneIndex, existing) ==
    SubSeq(ops, 1, laneIndex) \o <<NewLane(existing)>>
        \o SubSeq(ops, laneIndex + 1, Len(ops))

\* OpMultiLaneWrapper.removeLane, the base class: the replica at laneIndex
\* is cleaned up and the lanes after it move down by one.
baseRemoveLane(ops, laneIndex) ==
    SubSeq(ops, 1, laneIndex) \o SubSeq(ops, laneIndex + 2, Len(ops))

\* Variants of addLaneGuard: one that refuses the lane at the end, one that
\* also accepts a lane the wrapper already has.
addLaneGuardBelow(numLanes, laneIndex) == numLanes > laneIndex
addLaneGuardUpTo(numLanes, laneIndex) == numLanes >= laneIndex

\* Line 540: only add this lane if we don't already have it.
addLaneGuard(numLanes, laneIndex) == numLanes = laneIndex

\* Lines 534-541.
addLane(ops, laneIndex, existing) ==
    IF addLaneGuard(Len(ops), laneIndex)
    THEN baseAddLane(ops, laneIndex, existing)
    ELSE ops

\* A variant of removeLaneGuard that also removes at the final length.
removeLaneGuardAtLeast(numLanes, finalLength) == numLanes >= finalLength

\* Line 546.
removeLaneGuard(numLanes, finalLength) == numLanes > finalLength

\* Lines 543-547.
removeLane(ops, laneIndex, finalLength) ==
    IF removeLaneGuard(Len(ops), finalLength)
    THEN baseRemoveLane(ops, laneIndex)
    ELSE ops

LaneInit ==
    /\ innerOperators = <<>>
    /\ lanePc = "idle"
    /\ laneCall = [op |-> "init", laneIndex |-> 0, finalLength |-> 0,
                   pre |-> <<>>, nested |-> 0]

\* An outermost addLane(laneIndex).  If it inserts a lane, the insertSlot
\* signal of the new lane is delivered before the call returns.
AddLane(laneIndex) ==
    LET ops == addLane(innerOperators, laneIndex, Range(innerOperators))
    IN  /\ lanePc = "idle"
        /\ Len(ops) <= MaxLanes
        /\ innerOperators' = ops
        /\ lanePc' = IF ops # innerOperators THEN "insertSlot" ELSE "idle"
        /\ laneCall' = [op |-> "addLane", laneIndex |-> laneIndex, finalLength |-> 0,
                        pre |-> innerOperators, nested |-> 0]
        /\ UNCHANGED <<dsVars, appVars>>

\* A handler of the insertSlot signal calls addLane again for the lane that
\* is being added.
NestedAddLane ==
    LET ops == addLane(innerOperators, laneCall.laneIndex,
                       Range(innerOperators) \cup Range(laneCall.pre))
    IN  /\ lanePc = "insertSlot"
        /\ laneCall.nested < MaxNested
        /\ Len(ops) <= MaxLanes + MaxNested
        /\ innerOperators' = ops
        /\ laneCall' = [laneCall EXCEPT !.nested = @ + 1]
        /\ UNCHANGED <<lanePc, dsVars, appVars>>

\* The handlers have run; the outer addLane returns.
AddLaneReturn ==
    /\ lanePc = "insertSlot"
    /\ lanePc' = "idle"
    /\ UNCHANGED <<innerOperators, laneCall, dsVars, appVars>>

\* removeLane(laneIndex, finalLength) on an existing lane.
RemoveLane(laneIndex, finalLength) ==
    /\ lanePc = "idle"
    /\ laneIndex < Len(innerOperators)
    /\ innerOperators' = removeLane(innerOperators, laneIndex, finalLength)
    /\ laneCall' = [op |-> "removeLane", laneIndex |-> laneIndex,
                    finalLength |-> finalLength, pre |-> innerOperators, nested |-> 0]
    /\ UNCHANGED <<lanePc, dsVars, appVars>>

(***************************************************************************)
(* OpIIBoostFeatureSelection                                               *)
(* (ilastik/applets/iiboostFeatureSelection/opIIBoostFeatureSelection.py). *)
(***************************************************************************)
\* Extents of the 3D+c input image, and the largest number of channels of
\* the inner OpFeatureSelection's output.
ShapeX == 3
ShapeY == 2
ShapeZ == 2
MaxFeatureChannels == 2

\* Line 72: 1 raw channel + 9 hessian eigenvector elements.
ExtraChannels == 10
\* Lines 100, 222: the 3x3 eigenvector matrix as channels.
HessianChannels == 9
\* Lines 147, 196: the extent of the i and j axes.
EigenvectorExtent == 3

\* A region of interest: roi.start and roi.stop, the last axis being 'c'
\* (or the two last ones 'i' and 'j').
Roi(start, stop) == [start |-> start, stop |-> stop]
Intervals(n) == {ab \in (0..n) \X (0..n) : ab[1] < ab[2]}
Front(s) == SubSeq(s, 1, Len(s) - 1)
Last(s) == s[Len(s)]

\* The regions of the 1-channel InputImage.
InputRois ==
    {Roi(<<x[1], y[1], z[1], 0>>, <<x[2], y[2], z[2], 1>>) :
        x \in Intervals(ShapeX), y \in Intervals(ShapeY), z \in Intervals(ShapeZ)}

\* Python values that the '+' of a tuple may meet: a tuple, or an int.
PyTuple(items) == [kind |-> "tuple", items |-> items]
PyInt(n) == [kind |-> "int", items |-> <<n>>]
TypeError == [kind |-> "TypeError", items |-> <<>>]
\* tuple + other: concatenation of two tuples, TypeError otherwise.
PyAdd(a, b) ==
    IF a.kind = "tuple" /\ b.kind = "tuple" THEN PyTuple(a.items \o b.items)
    ELSE TypeError

\* What a propagateDirty did: the exception it raised, if any, and the
\* (slot, region) pairs it called setDirty with.
DirtyResult(exc, marks) == [exc |-> exc, marks |-> marks]
Mark(slot, start, stop) == [slot |-> slot, roi |-> Roi(start, stop)]

\* Lines 68-77: the output has the inner operator's shape with 10 more
\* channels.
IIBoostOutputShape(featureShape) ==
    Front(featureShape) \o <<Last(featureShape) + ExtraChannels>>

\* OpIIBoostFeatureSelection.propagateDirty, lines 83-88.
IIBoost_propagateDirty(roi, shape) ==
    LET num_channels == Last(shape)
        dirty_start == Front(roi.start) \o <<num_channels>>
        dirty_stop == Front(roi.stop) \o <<num_channels>>
    IN  DirtyResult(None, {Mark("OutputImage", dirty_start, dirty_stop)})

\* OpHessianEigenvectors.propagateDirty, lines 194-197.
Hessian_propagateDirty(roi) ==
    LET dirty_start == PyAdd(PyTuple(Front(roi.start)), PyTuple(<<0, 0>>))
        dirty_stop == PyAdd(PyTuple(Front(roi.stop)),
                            PyTuple(<<EigenvectorExtent, EigenvectorExtent>>))
    IN  IF TypeError \in {dirty_start, dirty_stop}
        THEN DirtyResult("TypeError", {})
        ELSE DirtyResult(None, {Mark("opHessianEigenvectors.Output",
                                     dirty_start.items, dirty_stop.items)})

\* OpConvertEigenvectorsToChannels.propagateDirty, lines 246-249: (0) and
\* (9) are ints, not tuples.
Convert_propagateDirty(roi) ==
    LET dirty_start == PyAdd(PyTuple(SubSeq(roi.start, 1, Len(roi.start) - 2)), PyInt(0))
        dirty_stop == PyAdd(PyTuple(SubSeq(roi.stop, 1, Len(roi.stop) - 2)),
                            PyInt(HessianChannels))
    IN  IF TypeError \in {dirty_start, dirty_stop}
        THEN DirtyResult("TypeError", {})
        ELSE DirtyResult(None, {Mark("opConvertToChannels.Output",
                                     dirty_start.items, dirty_stop.items)})

\* A dirty InputImage reaches opHessianEigenvectors.Input (line 55), whose
\* Output reaches opConvertToChannels.Input (line 60); an exception ends
\* the propagation.
HessianChain_propagateDirty(roi) ==
    LET h == Hessian_propagateDirty(roi)
    IN  IF h.exc # None THEN h
        ELSE LET marks == {m.roi : m \in h.marks}
                 c == Convert_propagateDirty(CHOOSE r \in marks : TRUE)
             IN  DirtyResult(c.exc, h.marks \cup c.marks)

\* All that a change of InputImage over roi does.  The slot notifies its
\* partners and its own operator, in an order the framework chooses; the
\* first exception ends the notification.
InputImage_setDirty(roi, shape, partnersFirst) ==
    LET chain == HessianChain_propagateDirty(roi)
        own == IIBoost_propagateDirty(roi, shape)
    IN  IF partnersFirst
        THEN IF chain.exc # None THEN chain
             ELSE DirtyResult(own.exc, chain.marks \cup own.marks)
        ELSE IF own.exc # None THEN own
             ELSE DirtyResult(chain.exc, own.marks \cup chain.marks)

DirtySlots == {"OutputImage", "CachedOutputImage",
               "opHessianEigenvectors.Output", "opConvertToChannels.Output"}

NoShape == <<>>

\* One channel of a buffer: which image it was read from, which channel of
\* that image, and over which spatial region.
Uninitialized == [source |-> None, channel |-> 0, start |-> <<>>, stop |-> <<>>]
Data(source, channel, start, stop) ==
    [source |-> source, channel |-> channel, start |-> start, stop |-> stop]

\* slot(*roi).writeInto(result[..., a:b]) followed by its wait().  numpy's
\* result[..., a:b] selects the channels from..to (1-based) of a buffer of
\* n channels.  The request fails when the roi is not a region
\* (stop < start), is refused or does nothing when the roi is empty
\* (emptyOk), fails when the destination has not the shape of the roi, and
\* otherwise writes the roi's channels into the destination.
WriteInto(result, source, roi, a, b, emptyOk) ==
    LET n == Len(result)
        channels == Last(roi.stop) - Last(roi.start)
        from == IF a < n THEN a + 1 ELSE n + 1
        to == IF b < n THEN b ELSE n
        sliceLen == IF to >= from THEN to - from + 1 ELSE 0
    IN  IF channels < 0 THEN [exc |-> "InvalidRoi", result |-> result]
        ELSE IF sliceLen # channels
        THEN [exc |-> "DestinationShapeMismatch", result |-> result]
        ELSE IF channels = 0 /\ ~emptyOk THEN [exc |-> "EmptyRoi", result |-> result]
        ELSE [exc |-> None,
              result |-> [i \in 1..n |->
                  IF i >= from /\ i < from + channels
                  THEN Data(source, Last(roi.start) + (i - from),
                            Front(roi.start), Front(roi.stop))
                  ELSE result[i]]]

\* The hessian sub-request of either slot reads the uncached image.
hevSourceUncached(slot) == "opConvertToChannels.Output"
\* The image each sub-request of execute reads, lines 115-120.
hevSource(slot) ==
    IF slot = "OutputImage" THEN "opConvertToChannels.Output"
    ELSE "opHessianEigenvectorCache.Output"
featSource(slot) ==
    IF slot = "OutputImage" THEN "opFeatureSelection.OutputImage"
    ELSE "opFeatureSelection.CachedOutputImage"

\* OpIIBoostFeatureSelection.execute, lines 90-125, on a fresh result buffer
\* of the roi's shape.
IIBoost_execute(slot, roi, sameDtype, emptyOk) ==
    LET spatial_start == Front(roi.start)
        spatial_stop == Front(roi.stop)
        raw_roi == Roi(spatial_start \o <<0>>, spatial_stop \o <<1>>)
        hess_ev_roi == Roi(spatial_start \o <<0>>, spatial_stop \o <<HessianChannels>>)
        features_roi == Roi(spatial_start \o <<0>>,
                            spatial_stop \o <<Last(roi.stop) - ExtraChannels>>)
        result == [i \in 1..(Last(roi.stop) - Last(roi.start)) |-> Uninitialized]
        \* lines 106-112: both branches leave the raw channel in result[..., 0:1]
        raw == IF sameDtype
               THEN WriteInto(result, "InputImage", raw_roi, 0, 1, emptyOk)
               ELSE [exc |-> None,
                     result |-> [i \in 1..Len(result) |->
                         IF i = 1 THEN Data("InputImage", 0, spatial_start, spatial_stop)
                         ELSE result[i]]]
        hev == WriteInto(raw.result, hevSource(slot), hess_ev_roi,
                         1, ExtraChannels, emptyOk)
        feat == WriteInto(hev.result, featSource(slot), features_roi,
                          ExtraChannels, Len(result), emptyOk)
    IN  IF raw.exc # None THEN raw
        ELSE IF hev.exc # None THEN hev
        ELSE feat

\* Regions of OutputImage / CachedOutputImage inside the declared shape:
\* every channel range, over one spatial region.
OutputRois(shape) ==
    IF shape = NoShape THEN {} ELSE
    {Roi(<<1, 0, 0, c[1]>>, <<ShapeX, ShapeY, ShapeZ, c[2]>>) :
        c \in Intervals(Last(shape))}

IIBoostInit ==
    /\ outputShape = NoShape
    /\ dirtied = [s \in DirtySlots |-> {}]
    /\ dirtyCall = [op |-> "init", roi |-> Roi(<<>>, <<>>), shape |-> NoShape, exc |-> None]
    /\ execCall = [op |-> "init", slot |-> None, roi |-> Roi(<<>>, <<>>),
                   shape |-> NoShape, exc |-> None, result |-> <<>>]

\* setupOutputs, lines 68-77, once the inner OpFeatureSelection has set up
\* an output of numFeatures channels.
IIBoostSetupOutputs(numFeatures) ==
    /\ outputShape' = IIBoostOutputShape(<<ShapeX, ShapeY, ShapeZ, numFeatures>>)
    /\ UNCHANGED <<dirtied, dirtyCall, execCall>>
    /\ UNCHANGED <<dsVars, laneVars, opVars, requestVars, trackVars, workflowVars, mainVars>>

\* InputImage changes over roi.
DirtyInputImage(roi, partnersFirst) ==
    LET r == InputImage_setDirty(roi, outputShape, partnersFirst)
    IN  /\ outputShape # NoShape
        /\ dirtied' = [s \in DirtySlots |-> {m.roi : m \in {k \in r.marks : k.slot = s}}]
        /\ dirtyCall' = [op |-> "setDirty", roi |-> roi, shape |-> outputShape, exc |-> r.exc]
        /\ UNCHANGED <<outputShape, execCall>>
        /\ UNCHANGED <<dsVars, laneVars, opVars, requestVars, trackVars, workflowVars, mainVars>>

\* A request for roi of OutputImage or CachedOutputImage is executed.
Execute(slot, roi, sameDtype, emptyOk) ==
    LET r == IIBoost_execute(slot, roi, sameDtype, emptyOk)
    IN  /\ outputShape # NoShape
        /\ roi \in OutputRois(outputShape)
        /\ execCall' = [op |-> "execute", slot |-> slot, roi |-> roi, shape |-> outputShape,
                        exc |-> r.exc, result |-> r.result]
        /\ UNCHANGED <<outputShape, dirtied, dirtyCall>>
        /\ UNCHANGED <<dsVars, laneVars, opVars, requestVars, trackVars, workflowVars, mainVars>>

(***************************************************************************)
(* Concurrent requests to OpIIBoostFeatureSelection: each runs execute()   *)
(* on a worker, which creates, submits and waits for sub-requests that     *)
(* other workers run in any order.                                         *)
(***************************************************************************)
\* Number of concurrent requests to OutputImage / CachedOutputImage.
MaxRequests == 2

\* The statements of execute that create, submit or wait for a request, in
\* program order with the hessian wait ahead of the feature submit.
ExecuteStatementsWaitEarly ==
    <<"raw_req", "raw_req.wait", "hev_feat_req",
      "hev_req.submit", "hev_req.wait", "feat_req.submit", "feat_req.wait", "return">>
\* The statements of execute that create, submit or wait for a request, in
\* program order: lines 106, 109/112, 116-120, 122, 123, 124, 125.
ExecuteStatements ==
    <<"raw_req", "raw_req.wait", "hev_feat_req",
      "hev_req.submit", "feat_req.submit", "hev_req.wait", "feat_req.wait", "return">>

\* The request a submit or wait statement is about.
RequestOf(stmt) ==
    IF stmt \in {"raw_req.wait"} THEN "raw"
    ELSE IF stmt \in {"hev_req.submit", "hev_req.wait"} THEN "hev"
    ELSE "feat"

\* One execute(): the slot asked, the statement it is at, how it ended, its
\* requests ("none" before creation, then "created", "pending" once
\* submitted, "waiting" on a pending cache block, "done" or "failed"), the
\* requests in their order of completion, and the hessian data received.
NotStarted ==
    [slot |-> None, pc |-> 0, outcome |-> None,
     req |-> [r \in {"raw", "hev", "feat"} |-> "none"],
     finished |-> <<>>, hevData |-> None]

RequestInit ==
    /\ executing = [c \in 1..MaxRequests |-> NotStarted]
    /\ cacheBlock = [state |-> "missing", data |-> None]
    /\ convertExecutes = [s \in {"OutputImage", "CachedOutputImage"} |-> 0]

Running(c) == executing[c].pc > 0 /\ executing[c].outcome = None
Statement(c) == ExecuteStatements[executing[c].pc]

\* A request for slot arrives and a worker enters execute (line 90).
StartExecute(c, slot) ==
    /\ executing[c].pc = 0
    /\ executing' = [executing EXCEPT ![c] = [NotStarted EXCEPT !.slot = slot, !.pc = 1]]
    /\ UNCHANGED <<cacheBlock, convertExecutes>>
    /\ UNCHANGED <<dsVars, laneVars, opVars, iiboostVars, trackVars, workflowVars, mainVars>>

\* Lines 106 and 116-120: the request objects are created.
CreateRequests(c) ==
    /\ Running(c)
    /\ Statement(c) \in {"raw_req", "hev_feat_req"}
    /\ executing' = [executing EXCEPT
          ![c].pc = @ + 1,
          ![c].req = IF Statement(c) = "raw_req"
                     THEN [@ EXCEPT !["raw"] = "created"]
                     ELSE [@ EXCEPT !["hev"] = "created", !["feat"] = "created"]]
    /\ UNCHANGED <<cacheBlock, convertExecutes>>
    /\ UNCHANGED <<dsVars, laneVars, opVars, iiboostVars, trackVars, workflowVars, mainVars>>

\* Lines 122, 123: submit() enqueues the request and returns immediately.
Submit(c) ==
    /\ Running(c)
    /\ Statement(c) \in {"hev_req.submit", "feat_req.submit"}
    /\ executing' = [executing EXCEPT
          ![c].pc = @ + 1,
          ![c].req[RequestOf(Statement(c))] = IF @ = "created" THEN "pending" ELSE @]
    /\ UNCHANGED <<cacheBlock, convertExecutes>>
    /\ UNCHANGED <<dsVars, laneVars, opVars, iiboostVars, trackVars, workflowVars, mainVars>>

\* Lines 109/112, 124, 125: wait() submits the request if that was not
\* done, blocks until it has completed, and raises if it has failed.
Wait(c) ==
    LET r == RequestOf(Statement(c))
        state == executing[c].req[r]
    IN  /\ Running(c)
        /\ Statement(c) \in {"raw_req.wait", "hev_req.wait", "feat_req.wait"}
        /\ state \in {"created", "done", "failed"}
        /\ executing' = [executing EXCEPT ![c] =
              IF state = "created" THEN [@ EXCEPT !.req[r] = "pending"]
              ELSE IF state = "done" THEN [@ EXCEPT !.pc = @ + 1]
              ELSE [@ EXCEPT !.outcome = "raised"]]
        /\ UNCHANGED <<cacheBlock, convertExecutes>>
        /\ UNCHANGED <<dsVars, laneVars, opVars, iiboostVars, trackVars, workflowVars, mainVars>>

\* execute returns after line 125.
Return(c) ==
    /\ Running(c)
    /\ Statement(c) = "return"
    /\ executing' = [executing EXCEPT ![c].outcome = "returned"]
    /\ UNCHANGED <<cacheBlock, convertExecutes>>
    /\ UNCHANGED <<dsVars, laneVars, opVars, iiboostVars, trackVars, workflowVars, mainVars>>

\* Whether request r of execute c is served by the block cache.
FromCache(c, r) ==
    r = "hev" /\ hevSource(executing[c].slot) = "opHessianEigenvectorCache.Output"

\* A worker runs a pending request that is not served by the cache to its
\* end; a hessian request runs opConvertToChannels.execute.
Complete(c, r) ==
    /\ executing[c].req[r] = "pending"
    /\ ~FromCache(c, r)
    /\ executing' = [executing EXCEPT
          ![c].req[r] = "done",
          ![c].finished = Append(@, r),
          ![c].hevData = IF r = "hev" THEN "eigenvectors" ELSE @]
    /\ convertExecutes' =
          IF r = "hev" THEN [convertExecutes EXCEPT ![executing[c].slot] = @ + 1]
          ELSE convertExecutes
    /\ UNCHANGED cacheBlock
    /\ UNCHANGED <<dsVars, laneVars, opVars, iiboostVars, trackVars, workflowVars, mainVars>>

\* A pending request that is not served by the cache raises.
Fail(c, r) ==
    /\ executing[c].req[r] = "pending"
    /\ ~FromCache(c, r)
    /\ executing' = [executing EXCEPT ![c].req[r] = "failed"]
    /\ UNCHANGED <<cacheBlock, convertExecutes>>
    /\ UNCHANGED <<dsVars, laneVars, opVars, iiboostVars, trackVars, workflowVars, mainVars>>

\* A worker runs a pending request to opHessianEigenvectorCache.Output: a
\* stored block is copied out; a missing block is computed by one request
\* to opConvertToChannels.Output, and the request waits for it; a pending
\* block is waited for.
CacheRequest(c) ==
    /\ executing[c].req["hev"] = "pending"
    /\ FromCache(c, "hev")
    /\ executing' = [executing EXCEPT ![c] =
          IF cacheBlock.state = "stored"
          THEN [@ EXCEPT !.req["hev"] = "done", !.finished = Append(@, "hev"),
                         !.hevData = cacheBlock.data]
          ELSE [@ EXCEPT !.req["hev"] = "waiting"]]
    /\ cacheBlock' = IF cacheBlock.state = "missing"
                     THEN [cacheBlock EXCEPT !.state = "pending"]
                     ELSE cacheBlock
    /\ convertExecutes' =
          IF cacheBlock.state = "missing"
          THEN [convertExecutes EXCEPT ![executing[c].slot] = @ + 1]
          ELSE convertExecutes
    /\ UNCHANGED <<dsVars, laneVars, opVars, iiboostVars, trackVars, workflowVars, mainVars>>

\* The computation of the pending block completes and is stored.
CacheStore ==
    /\ cacheBlock.state = "pending"
    /\ cacheBlock' = [state |-> "stored", data |-> "eigenvectors"]
    /\ UNCHANGED <<executing, convertExecutes>>
    /\ UNCHANGED <<dsVars, laneVars, opVars, iiboostVars, trackVars, workflowVars, mainVars>>

\* A request that waited for the block is satisfied from it.
CacheDeliver(c) ==
    /\ executing[c].req["hev"] = "waiting"
    /\ cacheBlock.state = "stored"
    /\ executing' = [executing EXCEPT ![c] =
          [@ EXCEPT !.req["hev"] = "done", !.finished = Append(@, "hev"),
                    !.hevData = cacheBlock.data]]
    /\ UNCHANGED <<cacheBlock, convertExecutes>>
    /\ UNCHANGED <<dsVars, laneVars, opVars, iiboostVars, trackVars, workflowVars, mainVars>>

(***************************************************************************)
(* Text and numbers.                                                       *)
(***************************************************************************)
\* A text is a sequence of characters.  Python's int(text) accepts an
\* optional sign followed by decimal digits and raises ValueError otherwise.
RECURSIVE DecimalValue(_)
DecimalValue(s) ==
    LET digits == <<"0", "1", "2", "3", "4", "5", "6", "7", "8", "9">>
    IN  IF s = <<>> THEN 0
        ELSE 10 * DecimalValue(SubSeq(s, 1, Len(s) - 1))
             + (CHOOSE d \in 0..9 : digits[d + 1] = s[Len(s)])
IsIntLiteral(s) ==
    LET unsigned == IF s # <<>> /\ s[1] \in {"-", "+"} THEN Tail(s) ELSE s
    IN  /\ unsigned # <<>>
        /\ \A i \in 1..Len(unsigned) :
              unsigned[i] \in {"0", "1", "2", "3", "4", "5", "6", "7", "8", "9"}
int(s) ==
    IF s[1] = "-" THEN 0 - DecimalValue(Tail(s))
    ELSE IF s[1] = "+" THEN DecimalValue(Tail(s))
    ELSE DecimalValue(s)

(***************************************************************************)
(* StructuredTrackingGui._onTrackButtonPressed                             *)
(* (ilastik/applets/tracking/structured/structuredTrackingGui.py).         *)
(***************************************************************************)
\* Number of times the Track button is pressed.
MaxTrackRequests == 2

\* What the user may have typed into _drawer.timeoutBox.
TimeoutTexts == {<<>>, <<"6", "0">>, <<"1", "h">>}
\* How mainOperator.track may end: it returns, raises an Exception, or
\* raises something that is not an Exception (KeyboardInterrupt, SystemExit).
TrackResults == {"returns", "Exception", "BaseException"}

\* The effect of a callback on applet.busy and TrackButton.
Gui(b, button) == [busy |-> b, TrackButton |-> button]
\* _handle_failure with the busy flag left as it is.
_handle_failureKeepsBusy(g) == Gui(g.busy, TRUE)
\* _handle_finished, lines 458-465.
_handle_finished(g) == Gui(FALSE, TRUE)
\* _handle_failure, lines 467-473.
_handle_failure(g) == Gui(FALSE, TRUE)

\* One request made by _onTrackButtonPressed: where it is ("none" before the
\* button is pressed, "submitted", "busy" once _track has set applet.busy,
\* "tracking" inside the try block, "ended", "notified" after its
\* callback), how the body ended, which callback ran and what the callback
\* left in applet.busy and TrackButton.
NoTrackRequest ==
    [pc |-> "none", outcome |-> None, callback |-> None, callbacks |-> 0,
     left |-> Gui(FALSE, FALSE)]

TrackInit ==
    /\ busy = FALSE
    /\ TrackButton = TRUE
    /\ trackRequests = [r \in 1..MaxTrackRequests |-> NoTrackRequest]

\* Lines 368-371 and 475-480: nothing happens without object features;
\* otherwise a request for _track is created with both callbacks and
\* submitted.
OnTrackButtonPressed(r, objectFeaturesReady) ==
    /\ trackRequests[r].pc = "none"
    /\ trackRequests' = IF objectFeaturesReady
                        THEN [trackRequests EXCEPT ![r].pc = "submitted"]
                        ELSE trackRequests
    /\ UNCHANGED <<busy, TrackButton>>
    /\ UNCHANGED <<dsVars, laneVars, opVars, iiboostVars, requestVars, workflowVars, mainVars>>

\* Lines 374-375: a worker starts _track.
TrackSetBusy(r) ==
    /\ trackRequests[r].pc = "submitted"
    /\ busy' = TRUE
    /\ trackRequests' = [trackRequests EXCEPT ![r].pc = "busy"]
    /\ UNCHANGED TrackButton
    /\ UNCHANGED <<dsVars, laneVars, opVars, iiboostVars, requestVars, workflowVars, mainVars>>

\* Lines 376-415: the parameters are read from the drawer; int() of the
\* timeout text is outside the try block.
TrackReadParameters(r, timeoutText) ==
    /\ trackRequests[r].pc = "busy"
    /\ trackRequests' =
          IF Len(timeoutText) # 0 /\ ~IsIntLiteral(timeoutText)
          THEN [trackRequests EXCEPT ![r].pc = "ended", ![r].outcome = "raised"]
          ELSE [trackRequests EXCEPT ![r].pc = "tracking"]
    /\ UNCHANGED <<busy, TrackButton>>
    /\ UNCHANGED <<dsVars, laneVars, opVars, iiboostVars, requestVars, workflowVars, mainVars>>

\* Lines 417-456: an Exception of mainOperator.track is caught, shown and
\* followed by return.
TrackCall(r, result) ==
    /\ trackRequests[r].pc = "tracking"
    /\ trackRequests' = [trackRequests EXCEPT
          ![r].pc = "ended",
          ![r].outcome = IF result = "BaseException" THEN "raised" ELSE "returned"]
    /\ UNCHANGED <<busy, TrackButton>>
    /\ UNCHANGED <<dsVars, laneVars, opVars, iiboostVars, requestVars, workflowVars, mainVars>>

\* The request's body has ended: its notify_finished callbacks run if it
\* returned, its notify_failed callbacks if it raised.
TrackNotify(r) ==
    LET failed == trackRequests[r].outcome = "raised"
        g == IF failed THEN _handle_failure(Gui(busy, TrackButton))
             ELSE _handle_finished(Gui(busy, TrackButton))
    IN  /\ trackRequests[r].pc = "ended"
        /\ busy' = g.busy
        /\ TrackButton' = g.TrackButton
        /\ trackRequests' = [trackRequests EXCEPT
              ![r].pc = "notified",
              ![r].callback = IF failed THEN "_handle_failure" ELSE "_handle_finished",
              ![r].callbacks = @ + 1,
              ![r].left = g]
        /\ UNCHANGED <<dsVars, laneVars, opVars, iiboostVars, requestVars, workflowVars, mainVars>>

\* The steps of request r that the worker pool takes.
TrackWorker(r) ==
    \/ TrackSetBusy(r)
    \/ \E timeoutText \in TimeoutTexts : TrackReadParameters(r, timeoutText)
    \/ \E result \in TrackResults : TrackCall(r, result)
    \/ TrackNotify(r)

(***************************************************************************)
(* ManualTrackingWorkflow.handleAppletStateUpdateRequested                 *)
(* (ilastik/workflows/tracking/manual/manualTrackingWorkflow.py).          *)
(***************************************************************************)
\* Line 56: max_lanes=1.
max_lanes == 1

\* Lines 83-88: the applets, in the order of self._applets.
Applets == {"dataSelectionApplet", "thresholdTwoLevelsApplet", "objectExtractionApplet",
            "trackingApplet", "dataExportApplet"}
\* Lines 178-180: the applets whose busy flag is read.
BusyApplets == {"dataSelectionApplet", "dataExportApplet", "trackingApplet"}

\* The slots the handler reads.  Every multi-lane slot has one subslot per
\* lane; the flags say whether all subslots of that kind are ready.
GraphFlags == {"ImageGroup[0]", "ImageGroup[1]", "Labels", "TrackImage", "Inputs[0][0]"}
Graphs == [numLanes : 0..max_lanes, ready : [GraphFlags -> BOOLEAN]]

\* Lines 143-153.
_inputReady(g) ==
    IF g.numLanes > 0
    THEN g.ready["ImageGroup[0]"] /\ g.ready["ImageGroup[1]"]
    ELSE FALSE

\* Lines 177-180 without the tracking applet.
anyBusyButTracking(b) == b["dataSelectionApplet"] \/ b["dataExportApplet"]
\* Lines 177-180.
anyBusy(b) == b["dataSelectionApplet"] \/ b["dataExportApplet"] \/ b["trackingApplet"]

\* What the shell has been told: enableProjectChanges, setAppletEnabled,
\* and whether that was after the last change of a flag or slot.
Shell(projectChanges, enabled, current) ==
    [projectChanges |-> projectChanges, enabled |-> enabled, current |-> current]

\* Lines 155-188.
handleAppletStateUpdateRequested(b, g) ==
    LET input_ready == _inputReady(g) /\ ~b["dataSelectionApplet"]
        thresholding_ready == input_ready /\ g.numLanes > 0
        features_ready == thresholding_ready
        tracking_ready == features_ready /\ g.numLanes > 0
                          /\ g.ready["Labels"] /\ g.ready["TrackImage"]
        isBusy == anyBusy(b)
    IN  Shell(~isBusy,
              [a \in Applets |->
                  CASE a = "dataSelectionApplet" -> ~isBusy
                    [] a = "thresholdTwoLevelsApplet" -> input_ready /\ ~isBusy
                    [] a = "objectExtractionApplet" -> thresholding_ready /\ ~isBusy
                    [] a = "trackingApplet" -> features_ready /\ ~isBusy
                    [] a = "dataExportApplet" ->
                          tracking_ready /\ ~isBusy /\ g.ready["Inputs[0][0]"]],
              TRUE)

WorkflowInit ==
    /\ appletBusy = [a \in BusyApplets |-> FALSE]
    /\ graph = [numLanes |-> 0, ready |-> [f \in GraphFlags |-> FALSE]]
    /\ shell = Shell(TRUE, [a \in Applets |-> TRUE], FALSE)

\* An applet starts or ends an operation: it sets its busy flag.
SetBusy(a, b) ==
    /\ appletBusy[a] # b
    /\ appletBusy' = [appletBusy EXCEPT ![a] = b]
    /\ shell' = [shell EXCEPT !.current = FALSE]
    /\ UNCHANGED graph
    /\ UNCHANGED <<dsVars, laneVars, opVars, iiboostVars, requestVars, trackVars, mainVars>>

\* A lane is added or removed, or a slot becomes ready or unready.
GraphChange(g) ==
    /\ g # graph
    /\ g.numLanes = 0 => g.ready = [f \in GraphFlags |-> FALSE]
    /\ graph' = g
    /\ shell' = [shell EXCEPT !.current = FALSE]
    /\ UNCHANGED appletBusy
    /\ UNCHANGED <<dsVars, laneVars, opVars, iiboostVars, requestVars, trackVars, mainVars>>

\* appletStateUpdateRequested is delivered to the workflow.
HandleAppletStateUpdateRequested ==
    /\ shell' = handleAppletStateUpdateRequested(appletBusy, graph)
    /\ UNCHANGED <<appletBusy, graph>>
    /\ UNCHANGED <<dsVars, laneVars, opVars, iiboostVars, requestVars, trackVars, mainVars>>

(***************************************************************************)
(* ilastik_main.main (ilastik_main.py).                                    *)
(***************************************************************************)
\* An option or environment variable that holds a text, or is absent
\* (None).  Python takes an absent or empty one for false.
Absent == [given |-> FALSE, text |-> <<>>]
Given(text) == [given |-> TRUE, text |-> text]
Truthy(opt) == opt.given /\ opt.text # <<>>

\* A number that may be None.
NoNumber == [defined |-> FALSE, value |-> 0]
Number(n) == [defined |-> TRUE, value |-> n]

\* The parsed arguments main reads, with their argparse defaults
\* (lines 12-34).
DefaultArgs ==
    [workflow |-> Absent, new_project |-> Absent, project |-> Absent,
     headless |-> FALSE, start_recording |-> FALSE, playback_script |-> Absent,
     fullscreen |-> FALSE, exit_on_failure |-> FALSE, exit_on_success |-> FALSE]
ArgSets ==
    [workflow : {Absent, Given(<<"w">>)},
     new_project : {Absent, Given(<<"n">>)},
     project : {Absent, Given(<<"p">>)},
     headless : BOOLEAN, start_recording : BOOLEAN,
     playback_script : {Absent, Given(<<>>), Given(<<"s">>)},
     fullscreen : BOOLEAN, exit_on_failure : BOOLEAN, exit_on_success : BOOLEAN]
LaunchArgs == {DefaultArgs, [DefaultArgs EXCEPT !.headless = TRUE]}

\* The environment variables _prepare_lazyflow_config reads, and the
\* [lazyflow] section of the config file.
DefaultEnv ==
    [LAZYFLOW_THREADS |-> Absent, LAZYFLOW_TOTAL_RAM_MB |-> Absent,
     LAZYFLOW_STATUS_MONITOR_SECONDS |-> Absent]
Envs ==
    [LAZYFLOW_THREADS : {Absent, Given(<<>>), Given(<<"0">>), Given(<<"2">>),
                         Given(<<"-", "1">>), Given(<<"a", "l", "l">>)},
     LAZYFLOW_TOTAL_RAM_MB : {Absent, Given(<<"6", "0", "0">>)},
     LAZYFLOW_STATUS_MONITOR_SECONDS : {Absent, Given(<<"5">>)}]
DefaultConfig == [threads |-> 0 - 1, total_ram_mb |-> 0]
Configs == [threads : {0 - 1, 0, 2}, total_ram_mb : {0, 100, 600}]

\* Lines 178-197: whether _validate_arg_compatibility calls sys.exit(1).
_validate_arg_compatibility(args) ==
    \/ args.workflow.given /\ ~args.new_project.given
    \/ ~args.workflow.given /\ args.new_project.given
    \/ args.project.given /\ args.new_project.given
    \/ /\ args.headless
       /\ \/ args.start_recording
          \/ Truthy(args.playback_script)
          \/ args.fullscreen
          \/ args.exit_on_failure
          \/ args.exit_on_success

\* Lines 226, 238 with a test for a non-zero count.
hasThreadCountNonZero(n_threads) == n_threads.defined /\ n_threads.value # 0
\* Lines 226, 238: n_threads is not None.
hasThreadCount(n_threads) == n_threads.defined

\* The function _prepare_lazyflow_config returns, or None.
NoConfigFn ==
    [defined |-> FALSE, n_threads |-> NoNumber, total_ram_mb |-> 0,
     status_interval_secs |-> 0]

\* Lines 207-251, up to the return: the exception raised, if any, and the
\* function returned.
_prepare_lazyflow_config(env, config) ==
    LET threadsText == env.LAZYFLOW_THREADS
        ramText == env.LAZYFLOW_TOTAL_RAM_MB
        statusText == IF env.LAZYFLOW_STATUS_MONITOR_SECONDS.given
                      THEN env.LAZYFLOW_STATUS_MONITOR_SECONDS.text ELSE <<"0">>
        \* lines 211, 215, 216: int() of a text that is no number raises
        bad == \/ ~IsIntLiteral(statusText)
               \/ threadsText.given /\ ~IsIntLiteral(threadsText.text)
               \/ Truthy(ramText) /\ ~IsIntLiteral(ramText.text)
        status_interval_secs == int(statusText)
        \* lines 214-215, 219-222
        n_threads == IF threadsText.given THEN Number(int(threadsText.text))
                     ELSE IF config.threads = 0 - 1 THEN NoNumber
                     ELSE Number(config.threads)
        \* lines 216, 223
        env_ram == IF Truthy(ramText) THEN int(ramText.text) ELSE 0
        total_ram_mb == IF env_ram # 0 THEN env_ram ELSE config.total_ram_mb
    IN  IF bad THEN [exc |-> "ValueError", fn |-> NoConfigFn]
        ELSE IF hasThreadCount(n_threads) \/ total_ram_mb # 0 \/ status_interval_secs # 0
        THEN [exc |-> None,
              fn |-> [defined |-> TRUE, n_threads |-> n_threads,
                      total_ram_mb |-> total_ram_mb,
                      status_interval_secs |-> status_interval_secs]]
        ELSE [exc |-> None, fn |-> NoConfigFn]

\* The lazyflow settings main may change.
Lazyflow(poolReset, threads, availableRam) ==
    [poolReset |-> poolReset, threads |-> threads, availableRam |-> availableRam]

\* Line 246: MB to bytes.
BytesPerMB == 1024 * 1024
\* Line 242: the least RAM limit accepted, in MB.
MinRamMB == 500

\* _configure_lazyflow_settings, lines 227-249, applied to the settings.
_configure_lazyflow_settings(fn, lf) ==
    LET reset == IF hasThreadCount(fn.n_threads)
                 THEN Lazyflow(TRUE, fn.n_threads.value, lf.availableRam)
                 ELSE lf
    IN  IF fn.total_ram_mb > 0
        THEN IF fn.total_ram_mb < MinRamMB
             THEN [exc |-> "Exception", lazyflow |-> reset]
             ELSE [exc |-> None,
                   lazyflow |-> [reset EXCEPT !.availableRam = fn.total_ram_mb * BytesPerMB]]
        ELSE [exc |-> None, lazyflow |-> reset]

MainInit ==
    main = [pc |-> "init", args |-> DefaultArgs, env |-> DefaultEnv,
            config |-> DefaultConfig, exit |-> NoNumber, exc |-> None,
            fn |-> NoConfigFn, preinit |-> FALSE, shell |-> None, postinit |-> FALSE,
            lazyflow |-> Lazyflow(FALSE, 0, 0)]

\* main is called, lines 36-53.
MainStart(args, env, config) ==
    /\ main.pc = "init"
    /\ main' = [main EXCEPT !.pc = "validate", !.args = args, !.env = env,
                            !.config = config]
    /\ UNCHANGED <<dsVars, laneVars, opVars, iiboostVars, requestVars, trackVars, workflowVars>>

\* Line 54.
MainValidate ==
    /\ main.pc = "validate"
    /\ main' = IF _validate_arg_compatibility(main.args)
               THEN [main EXCEPT !.pc = "exited", !.exit = Number(1)]
               ELSE [main EXCEPT !.pc = "prepare"]
    /\ UNCHANGED <<dsVars, laneVars, opVars, iiboostVars, requestVars, trackVars, workflowVars>>

\* Lines 56-79: the pre-init and post-init functions are collected;
\* _prepare_auto_open_project raises if the project file does not exist.
MainPrepare(projectExists) ==
    LET prepared == _prepare_lazyflow_config(main.env, main.config)
    IN  /\ main.pc = "prepare"
        /\ main' =
              IF prepared.exc # None
              THEN [main EXCEPT !.pc = "raised", !.exc = prepared.exc]
              ELSE IF main.args.project.given /\ ~projectExists
              THEN [main EXCEPT !.pc = "raised", !.exc = "RuntimeError",
                                !.fn = prepared.fn]
              ELSE [main EXCEPT !.pc = "launch", !.fn = prepared.fn]
        /\ UNCHANGED <<dsVars, laneVars, opVars, iiboostVars, requestVars, trackVars, workflowVars>>

\* Lines 98-100 (headless), or startShellGui (line 112): the pre-init
\* functions are called before the shell is created.
MainPreInit ==
    LET configured == _configure_lazyflow_settings(main.fn, main.lazyflow)
    IN  /\ main.pc = "launch"
        /\ main' =
              IF ~main.fn.defined THEN [main EXCEPT !.pc = "preinit", !.preinit = TRUE]
              ELSE IF configured.exc # None
              THEN [main EXCEPT !.pc = "raised", !.exc = configured.exc,
                                !.preinit = TRUE, !.lazyflow = configured.lazyflow]
              ELSE [main EXCEPT !.pc = "preinit", !.preinit = TRUE,
                                !.lazyflow = configured.lazyflow]
        /\ UNCHANGED <<dsVars, laneVars, opVars, iiboostVars, requestVars, trackVars, workflowVars>>

\* Lines 102-103 (headless), or startShellGui: the shell is created.
MainCreateShell ==
    /\ main.pc = "preinit"
    /\ main' = [main EXCEPT !.pc = "shell",
                            !.shell = IF main.args.headless THEN "HeadlessShell"
                                      ELSE "IlastikShell"]
    /\ UNCHANGED <<dsVars, laneVars, opVars, iiboostVars, requestVars, trackVars, workflowVars>>

\* Lines 105-108 (headless), or startShellGui: the post-init functions are
\* called with the shell.
MainPostInit ==
    /\ main.pc = "shell"
    /\ main' = [main EXCEPT !.pc = "done", !.postinit = TRUE]
    /\ UNCHANGED <<dsVars, laneVars, opVars, iiboostVars, requestVars, trackVars, workflowVars>>

(***************************************************************************)
(* DatasetInfo.updateFromJson (opDataSelection.py).                        *)
(***************************************************************************)
\* The variables of the components above.
otherVars == <<dsVars, laneVars, iiboostVars, requestVars, trackVars, workflowVars,
               mainVars>>

\* uuid.uuid1() is called at most this many times.
MaxUuids == 3

\* A DatasetInfo object as updateFromJson reads and writes it.  _datasetId
\* is 0 for the "" of line 63 and n for the n-th uuid drawn; a field that is
\* None is Absent.
DatasetInfoFields(_filePath, _datasetId, drange, nickname, axistags, subvolume_roi) ==
    [_filePath |-> _filePath, _datasetId |-> _datasetId, drange |-> drange,
     nickname |-> nickname, axistags |-> axistags, subvolume_roi |-> subvolume_roi]

\* The namespaces a JsonConfigParser returns for DatasetInfoSchema: every
\* field is None when the file does not give it.
JsonNamespaces ==
    [filepath : {Absent, Given(<<>>), Given(<<"b">>)},
     drange : {Absent, Given(<<0, 1>>)},
     nickname : {Absent, Given(<<"n">>)},
     axistags : {Absent, Given(<<"x", "y">>)},
     subvolume_roi : {Absent, Given(<<0, 5>>)}]

\* x or y.
PyOr(x, y) == IF Truthy(x) THEN x ELSE y

\* The filePath property setter, lines 126-130, on object d = [info, uuids].
filePath_setter(d, newPath) ==
    [info |-> [d.info EXCEPT !._filePath = newPath, !._datasetId = d.uuids + 1],
     uuids |-> d.uuids + 1]

\* Lines 168-178; vigra.defaultAxistags makes one tag of every key.
updateFromJson(d, namespace) ==
    LET set == filePath_setter(d, PyOr(namespace.filepath, d.info._filePath))
        i == set.info
    IN  [set EXCEPT !.info =
            [i EXCEPT !.drange = PyOr(namespace.drange, i.drange),
                      !.nickname = PyOr(namespace.nickname, i.nickname),
                      !.axistags = IF namespace.axistags.given
                                   THEN Given(namespace.axistags.text)
                                   ELSE i.axistags,
                      !.subvolume_roi = PyOr(namespace.subvolume_roi, i.subvolume_roi)]]

\* DatasetInfo(), lines 62-72.
DatasetInfoInit ==
    LET info == DatasetInfoFields(Given(<<>>), 0, Absent, Given(<<>>), Absent, Absent)
    IN  datasetInfo = [info |-> info, uuids |-> 0, op |-> None, before |-> info,
                       namespace |-> CHOOSE ns \in JsonNamespaces : TRUE]

\* info.updateFromJson(namespace).
UpdateFromJson(namespace) ==
    /\ datasetInfo.uuids < MaxUuids
    /\ LET after == updateFromJson(datasetInfo, namespace)
       IN  datasetInfo' = [info |-> after.info, uuids |-> after.uuids,
                           op |-> "updateFromJson", before |-> datasetInfo.info,
                           namespace |-> namespace]
    /\ UNCHANGED <<otherVars, opGroup, axisOrder, annotations, learning, chaingraph>>

\* info.filePath = newPath, as the data selection GUI and serializer do.
SetFilePath(newPath) ==
    /\ datasetInfo.uuids < MaxUuids
    /\ LET after == filePath_setter(datasetInfo, newPath)
       IN  datasetInfo' = [datasetInfo EXCEPT !.info = after.info, !.uuids = after.uuids,
                                              !.op = "filePath", !.before = datasetInfo.info]
    /\ UNCHANGED <<otherVars, opGroup, axisOrder, annotations, learning, chaingraph>>

(***************************************************************************)
(* OpDataSelectionGroup (opDataSelection.py).                              *)
(***************************************************************************)
\* The longest DatasetRoles value.
MaxRoles == 3

RoleNames == {"Raw Data", "Prediction Maps", "Labels"}
RoleLists == UNION {[1..n -> RoleNames] : n \in 0..MaxRoles}

\* The convenience outputs, and the inner slot each is connected to.
GroupOutputs ==
    [Image |-> "Image[0]", Image1 |-> "Image[1]", Image2 |-> "Image[2]",
     ImageName |-> "ImageName[0]", AllowLabels |-> "AllowLabels[0]"]

\* An output slot: what it is connected to (None when disconnected) and
\* its meta.NOTREADY.  connect takes the metadata of the upstream slot.
GroupSlot(connected, NOTREADY) == [connected |-> connected, NOTREADY |-> NOTREADY]
GroupDisconnect(out, names) ==
    [o \in DOMAIN out |-> IF o \in names THEN GroupSlot(None, out[o].NOTREADY) ELSE out[o]]
GroupConnect(out, names) ==
    [o \in DOMAIN out |-> IF o \in names THEN GroupSlot(GroupOutputs[o], FALSE) ELSE out[o]]
GroupNotReady(out, names) ==
    [o \in DOMAIN out |-> IF o \in names THEN GroupSlot(out[o].connected, TRUE) ELSE out[o]]

\* self._opDatasets: None, or an OperatorWrapper with its lanes.
NoWrapper == [exists |-> FALSE, lanes |-> 0]
Wrapper(lanes) == [exists |-> TRUE, lanes |-> lanes]

\* Lines 456-508, for DatasetRoles.value = roles.  handleNewRoles (452-454)
\* has resized DatasetGroup to len(roles), and connecting Dataset to
\* DatasetGroup (line 473) gives the wrapper that many lanes.
Group_setupOutputs(G, roles) ==
    LET G1 == IF roles # G._roles
              THEN [G EXCEPT !._roles = roles,
                             !.out = GroupDisconnect(@, {"Image", "Image1", "Image2"}),
                             !._opDatasets = Wrapper(Len(roles))]
              ELSE G
        n == G1._opDatasets.lanes
        rest == {"Image", "Image1", "Image2", "ImageName", "AllowLabels"}
    IN  IF ~G1._opDatasets.exists
        THEN [G1 EXCEPT !.exc = "TypeError"]     \* enumerate(None), line 478
        ELSE IF n > 0
        THEN [G1 EXCEPT !.exc = None,
                 !.out = GroupConnect(
                            GroupNotReady(
                                GroupDisconnect(
                                    GroupConnect(@, {"Image"} \cup (IF n >= 2 THEN {"Image1"} ELSE {})
                                                             \cup (IF n >= 3 THEN {"Image2"} ELSE {})),
                                    (IF n >= 2 THEN {} ELSE {"Image1"})
                                        \cup (IF n >= 3 THEN {} ELSE {"Image2"})),
                                (IF n >= 2 THEN {} ELSE {"Image1"})
                                    \cup (IF n >= 3 THEN {} ELSE {"Image2"})),
                            {"ImageName", "AllowLabels"})]
        ELSE [G1 EXCEPT !.exc = None,
                 !.out = GroupNotReady(GroupDisconnect(@, rest), rest)]

\* Lines 446-454: a constructed operator.
GroupInit ==
    opGroup = [_roles |-> <<>>, _opDatasets |-> NoWrapper,
               out |-> [o \in DOMAIN GroupOutputs |-> GroupSlot(None, FALSE)],
               exc |-> None, DatasetRoles |-> <<>>, op |-> "init", preRoles |-> <<>>]

\* DatasetRoles.setValue(roles), with the other mandatory input ready:
\* handleNewRoles and then setupOutputs run.
SetDatasetRoles(roles) ==
    /\ opGroup' = [Group_setupOutputs(opGroup, roles) EXCEPT
                      !.DatasetRoles = roles, !.op = "setupOutputs",
                      !.preRoles = opGroup._roles]
    /\ UNCHANGED <<otherVars, datasetInfo, axisOrder, annotations, learning, chaingraph>>

\* Another ready input changes (WorkingDirectory, ProjectFile, a dataset):
\* setupOutputs runs again with the same roles.
GroupInputChanged ==
    /\ opGroup.op # "init"
    /\ opGroup' = [Group_setupOutputs(opGroup, opGroup.DatasetRoles) EXCEPT
                      !.op = "setupOutputs", !.preRoles = opGroup._roles]
    /\ UNCHANGED <<otherVars, datasetInfo, axisOrder, annotations, learning, chaingraph>>

(***************************************************************************)
(* The forced axis order of OpDataSelection.setupOutputs, for more lists   *)
(* of allowed orders than ForceChoices has.                                *)
(***************************************************************************)
\* The longest forceAxisOrder list.
MaxOrders == 3

AllowedOrders ==
    { <<"y", "x", "c">>, <<"x", "y", "c">>, <<"z", "y", "x", "c">>,
      <<"t", "z", "y", "x", "c">> }
ForceLists == UNION {[1..n -> AllowedOrders] : n \in 1..MaxOrders}

AxisOrderInit ==
    axisOrder = [op |-> "init", force |-> <<>>, seen |-> Disconnected,
                 applied |-> <<>>, exc |-> NoExc]

\* Lines 343-374 for an operator constructed with forceAxisOrder = force
\* (line 222: the list is fixed at construction), when the metadata
\* injector provides the axes of the file at path.
ForceAxisOrder(force, path) ==
    LET shape == Source(path).shape
        S == [OpState EXCEPT !.provider = Provides(shape.keys, shape.extents, None)]
        T == StageForceAxisOrder(S, force, "none")
    IN  /\ axisOrder.op = "init" \/ force = axisOrder.force
        /\ axisOrder' = [op |-> "setupOutputs", force |-> force, seen |-> T.seen,
                         applied |-> IF T.exc = NoExc THEN T.provider.keys ELSE <<>>,
                         exc |-> T.exc]
        /\ UNCHANGED <<otherVars, datasetInfo, opGroup, annotations, learning, chaingraph>>

(***************************************************************************)
(* OpStructuredTracking._type and the scan of the annotated labels         *)
(* (opStructuredTracking.py).                                              *)
(***************************************************************************)
\* The frames are 0..MaxTime.
MaxTime == 3

\* Annotations.value[cropKey]["labels"] as far as one track is concerned.
\* For each frame: whether the dict has the key; label, the object that
\* holds the track in that frame (0: none does); others, whether the frame
\* has objects of other tracks under every label number.
Frame(present, label, others) == [present |-> present, label |-> label, others |-> others]
Frames == {Frame(FALSE, 0, FALSE)} \cup {Frame(TRUE, l, o) : l \in 0..1, o \in BOOLEAN}
LabelDicts == [0..MaxTime -> Frames]

\* self._crops[cropKey]["time"]
CropTimes == {c \in [lo : 0..MaxTime, hi : 0..MaxTime] : c.lo <= c.hi}

\* What _type returns: None, or a list of the type and, for LAST and
\* INTERMEDIATE, the previous label; or the exception it raises.
TypeResult(type, label, exc) == [type |-> type, label |-> label, exc |-> exc]

\* Lines 451-492.
_type(labels, crop, time, track) ==
    LET before == crop.lo..(time - 1)
        hits == {t \in before : labels[t].label # 0}
        lastTime == IF hits = {} THEN 0 - 1
                    ELSE CHOOSE t \in hits : \A u \in hits : u <= t
        lastLabel == IF hits = {} THEN 0 - 1 ELSE labels[lastTime].label
        initial == IF time = 0 THEN "FIRST" ELSE None
        type == IF lastTime = 0 - 1 THEN "FIRST"
                ELSE IF lastTime < time - 1 THEN initial
                ELSE "INTERMEDIATE"
        later == {t \in (time + 1)..crop.hi : labels[t].present /\ labels[t].label # 0}
        firstTime == IF later = {} THEN 0 - 1
                     ELSE CHOOSE t \in later : \A u \in later : t <= u
    IN  IF track = 0 - 1 THEN TypeResult("FALSE_DETECTION", 0 - 1, NoExc)
        ELSE IF \E t \in before : ~labels[t].present       \* labels[t], line 464
        THEN TypeResult(None, 0 - 1, Raised("KeyError"))
        ELSE IF firstTime = 0 - 1
        THEN IF type = "FIRST"
             THEN TypeResult("SINGLETON(FIRST_LAST)", 0 - 1, NoExc)
             ELSE TypeResult("LAST", lastLabel, NoExc)
        ELSE IF firstTime > time + 1
        THEN TypeResult(None, 0 - 1, NoExc)
        ELSE IF type = "INTERMEDIATE"
        THEN TypeResult("INTERMEDIATE", lastLabel, NoExc)
        ELSE IF type # None
        THEN TypeResult(type, 0 - 1, NoExc)
        ELSE TypeResult(None, 0 - 1, NoExc)

\* Lines 238-248 for the annotated track at one frame, in a hypotheses
\* graph that has every node and arc looked for: the exception raised.
ScanTrack(labels, crop, time) ==
    LET type == _type(labels, crop, time, 1)
    IN  IF type.exc # NoExc THEN type.exc
        ELSE IF type.type = None THEN DatasetConstraintError("Structured Learning")
        ELSE IF /\ type.type \in {"LAST", "INTERMEDIATE"}
                /\ labels[time - 1].label # type.label     \* labels[time-1][previous_label]
                /\ ~labels[time - 1].others
        THEN Raised("KeyError")
        ELSE NoExc

\* Lines 193-241: the frames of the crop are visited in the order of the
\* dict's keys (ascending, for small integers) until one raises.
Scan(labels, crop) ==
    LET times == {t \in crop.lo..crop.hi : labels[t].present /\ labels[t].label # 0}
        raising == {t \in times : ScanTrack(labels, crop, t) # NoExc}
    IN  IF raising = {} THEN NoExc
        ELSE ScanTrack(labels, crop, CHOOSE t \in raising : \A u \in raising : t <= u)

AnnotationsInit ==
    annotations = [op |-> "init", labels |-> [t \in 0..MaxTime |-> Frame(FALSE, 0, FALSE)],
                   crop |-> [lo |-> 0, hi |-> 0], time |-> 0, track |-> 0,
                   result |-> TypeResult(None, 0 - 1, NoExc), exc |-> NoExc]

\* The Annotations and Crops slots get their values.
Annotate(labels, crop) ==
    /\ annotations.op = "init"
    /\ annotations' = [annotations EXCEPT !.op = "annotate", !.labels = labels,
                                           !.crop = crop]
    /\ UNCHANGED <<otherVars, datasetInfo, opGroup, axisOrder, learning, chaingraph>>

\* self._type(cropKey, time, track) for a frame of the crop that the
\* annotations have.
Type(time, track) ==
    /\ annotations.op # "init"
    /\ time \in annotations.crop.lo..annotations.crop.hi
    /\ annotations.labels[time].present
    /\ annotations' = [annotations EXCEPT
                          !.op = "_type", !.time = time, !.track = track,
                          !.result = _type(annotations.labels, annotations.crop, time, track),
                          !.exc = NoExc]
    /\ UNCHANGED <<otherVars, datasetInfo, opGroup, axisOrder, learning, chaingraph>>

\* _runStructuredLearning reads the labels of the crop.
ScanAnnotations ==
    /\ annotations.op # "init"
    /\ annotations' = [annotations EXCEPT
                          !.op = "scan", !.time = 0, !.track = 0,
                          !.result = TypeResult(None, 0 - 1, NoExc),
                          !.exc = Scan(annotations.labels, annotations.crop)]
    /\ UNCHANGED <<otherVars, datasetInfo, opGroup, axisOrder, learning, chaingraph>>

(***************************************************************************)
(* OpStructuredTracking._runStructuredLearning (opStructuredTracking.py).  *)
(***************************************************************************)
\* The largest maxNearestNeighbors a caller passes.
MaxNeighborsArg == 11

\* A weight num / sqrt(den2), in hundredths.
Weight(num, den2) == [num |-> num, den2 |-> den2]

\* The values of the five weight slots.  In learning, entry is their value
\* when the call began and trainCalls the number of calls of mht made.
Weights(detection, division, transition, appearance, disappearance) ==
    [DetectionWeight |-> detection, DivisionWeight |-> division,
     TransitionWeight |-> transition, AppearanceWeight |-> appearance,
     DisappearanceWeight |-> disappearance]

\* Lines 48-52: detection 0.6, division 0.6, transition 0.01, appearance
\* 0.3, disappearance 0.2.
InitialWeights ==
    Weights(Weight(60, 1), Weight(60, 1), Weight(1, 1), Weight(30, 1), Weight(20, 1))

\* What mht.train may return, as weightsDictToList lists it: transition,
\* detection, division, appearance, disappearance.
TrainResults == { <<0, 0, 0, 0, 0>>, <<1, 2, 2, 0, 0>>, <<0 - 1, 2, 2, 0, 0>> }

\* Lines 121-122, 200 and 442.
weightsReturn(w) ==
    <<w.DetectionWeight, w.DivisionWeight, w.TransitionWeight, w.AppearanceWeight,
      w.DisappearanceWeight>>

\* Lines 329-337.
notFoundReturn(w) ==
    <<w.TransitionWeight, w.DetectionWeight, w.DivisionWeight, w.AppearanceWeight,
      w.DisappearanceWeight>>

\* Line 160.
firstNeighbors(maxNearestNeighbors) ==
    IF maxNearestNeighbors - 1 > 1 THEN maxNearestNeighbors - 1 ELSE 1

\* A variant of whileCondition that also admits the count 10.
whileConditionUpTo(foundAllArcs, maxObjOK, new_max_nearest_neighbors) ==
    ~foundAllArcs /\ maxObjOK /\ new_max_nearest_neighbors <= 10

\* Line 163.
whileCondition(foundAllArcs, maxObjOK, new_max_nearest_neighbors) ==
    ~foundAllArcs /\ maxObjOK /\ new_max_nearest_neighbors < 10

\* Lines 363-374 (and 407-418): the slots take weights[i] / norm when the
\* norm is not zero.
Normalized(w, weights) ==
    LET norm2 == weights[1] * weights[1] + weights[2] * weights[2]
                 + weights[3] * weights[3] + weights[4] * weights[4]
                 + weights[5] * weights[5]
    IN  IF norm2 > 0
        THEN Weights(Weight(weights[2], norm2), Weight(weights[3], norm2),
                     Weight(weights[1], norm2), Weight(weights[4], norm2),
                     Weight(weights[5], norm2))
        ELSE w

\* What one pass of the loop body (lines 164-320) comes to: every annotated
\* node and arc is in the hypotheses graph, or one is not, or a crop has no
\* saved training (return at line 200), or the body raises (lines 174, 228,
\* 241, 257, 278).
AttemptOutcomes == {"foundAllArcs", "notFound", "untrained", "raises"}

LearningInit ==
    learning = [pc |-> "idle", weights |-> InitialWeights, maxNearestNeighbors |-> 0,
                new_max_nearest_neighbors |-> 0, foundAllArcs |-> FALSE,
                attempts |-> <<>>, path |-> None, returned |-> <<>>, exc |-> NoExc,
                entry |-> InitialWeights, trainCalls |-> 0]

\* Lines 97-162: the call, up to the loop.
RunStructuredLearning(maxNearestNeighbors, emptyAnnotations) ==
    /\ learning.pc \in {"idle", "done"}
    /\ learning' =
          [learning EXCEPT
              !.pc = IF emptyAnnotations THEN "done" ELSE "loop",
              !.maxNearestNeighbors = maxNearestNeighbors,
              !.new_max_nearest_neighbors =
                  IF emptyAnnotations THEN 0 ELSE firstNeighbors(maxNearestNeighbors),
              !.foundAllArcs = FALSE,
              !.attempts = <<>>,
              !.entry = learning.weights,
              !.trainCalls = 0,
              !.path = IF emptyAnnotations THEN "emptyAnnotations" ELSE None,
              !.returned = IF emptyAnnotations THEN weightsReturn(learning.weights)
                           ELSE <<>>,
              !.exc = NoExc]
    /\ UNCHANGED <<otherVars, datasetInfo, opGroup, axisOrder, annotations, chaingraph>>

\* Lines 163-320: one pass of the loop.  The hypotheses graph is created
\* from Parameters, whose max_nearest_neighbors line 169 has just set.
BuildHypothesesGraph(outcome) ==
    /\ learning.pc = "loop"
    /\ whileCondition(learning.foundAllArcs, TRUE, learning.new_max_nearest_neighbors)
    /\ LET new == learning.new_max_nearest_neighbors + 1
       IN  learning' =
              [learning EXCEPT
                  !.new_max_nearest_neighbors = new,
                  !.attempts = Append(@, [max_nearest_neighbors |-> new,
                                          outcome |-> outcome]),
                  !.foundAllArcs = (outcome = "foundAllArcs"),
                  !.pc = IF outcome \in {"untrained", "raises"} THEN "done" ELSE "loop",
                  !.path = IF outcome = "untrained" THEN "untrained" ELSE None,
                  !.returned = IF outcome = "untrained"
                               THEN weightsReturn(learning.weights) ELSE <<>>,
                  !.exc = IF outcome = "raises"
                          THEN DatasetConstraintError("Structured Learning")
                          ELSE NoExc]
    /\ UNCHANGED <<otherVars, datasetInfo, opGroup, axisOrder, annotations, chaingraph>>

\* Lines 321-337: the loop has ended and not all arcs were found.
ReturnNotFound ==
    /\ learning.pc = "loop"
    /\ ~whileCondition(learning.foundAllArcs, TRUE, learning.new_max_nearest_neighbors)
    /\ ~learning.foundAllArcs
    /\ learning' = [learning EXCEPT !.pc = "done", !.path = "notFound",
                                    !.returned = notFoundReturn(learning.weights)]
    /\ UNCHANGED <<otherVars, datasetInfo, opGroup, axisOrder, annotations, chaingraph>>

\* Lines 321-442 when all arcs were found.  trained is the result of
\* mht.train (lines 353-354) and retrained that of the training with
\* non-negative weights only (line 404), made when a weight is negative.
Train(trained, retrained) ==
    /\ learning.pc = "loop"
    /\ learning.foundAllArcs
    /\ LET w1 == Normalized(learning.weights, trained)
           negative == \E k \in DOMAIN w1 : w1[k].num < 0
           w2 == IF negative THEN Normalized(w1, retrained) ELSE w1
       IN  /\ ~negative => retrained = trained
           /\ \A i \in 1..5 : retrained[i] >= 0
           /\ learning' = [learning EXCEPT
                              !.pc = "done", !.path = "trained",
                              !.trainCalls = IF negative THEN 3 ELSE 2,
                              !.weights = w2, !.returned = weightsReturn(w2)]
    /\ UNCHANGED <<otherVars, datasetInfo, opGroup, axisOrder, annotations, chaingraph>>

\* The steps of a call in progress.
LearningStep ==
    \/ \E outcome \in AttemptOutcomes : BuildHypothesesGraph(outcome)
    \/ ReturnNotFound
    \/ \E trained \in TrainResults, retrained \in TrainResults : Train(trained, retrained)

(***************************************************************************)
(* OpChaingraphTracking.track (opChaingraphTracking.py).                   *)
(***************************************************************************)
\* The keys track writes (lines 58-69), with the values of the default
\* arguments (lines 33-52); values are written as Python prints them.  In a dict, None marks
\* a key the dict does not have.
TrackDefaults ==
    [appearance |-> "500", disappearance |-> "500", opportunity |-> "100",
     noiserate |-> "0.1", noiseweight |-> "100", epgap |-> "0.2", nneighbors |-> "2",
     with_divisions |-> "True", cplex_timeout |-> "''"]
EmptyDict == [k \in DOMAIN TrackDefaults |-> None]

\* Where a call of track ends: it returns, or raises at line 77, 102 or
\* 105.
TrackOutcomes == {"returns", "emptyFrame", "trackerFails", "noEvents"}

\* Lines 54-110.  Parameters.value is the dict object the slot holds, so
\* lines 58-69 write into the slot's value; S is [ready, Parameters,
\* EventsVector].
Chaingraph_track(S, app, cplex_timeout, outcome, events) ==
    LET parameters ==
            [TrackDefaults EXCEPT
                !.appearance = app,
                !.cplex_timeout = IF cplex_timeout # None THEN cplex_timeout ELSE "''"]
        written == [S EXCEPT !.Parameters = parameters]
    IN  IF ~S.ready
        THEN [S EXCEPT !.exc = Raised("Exception")]
        ELSE IF outcome # "returns"
        THEN [written EXCEPT !.exc = Raised("Exception")]
        ELSE [written EXCEPT !.EventsVector = events, !.exc = NoExc]

ChaingraphInit ==
    chaingraph = [ready |-> FALSE, Parameters |-> EmptyDict, EventsVector |-> None,
                  exc |-> NoExc, op |-> "init",
                  before |-> [Parameters |-> EmptyDict, EventsVector |-> None]]

\* Parameters.setValue(dict()).
SetParameters ==
    /\ chaingraph' = [chaingraph EXCEPT !.ready = TRUE, !.Parameters = EmptyDict,
                                         !.exc = NoExc, !.op = "setValue"]
    /\ UNCHANGED <<otherVars, datasetInfo, opGroup, axisOrder, annotations, learning>>

\* op.track(..., app=app, cplex_timeout=cplex_timeout).
Track(app, cplex_timeout, outcome, events) ==
    /\ chaingraph' = [Chaingraph_track(chaingraph, app, cplex_timeout, outcome, events) EXCEPT
                         !.op = "track",
                         !.before = [Parameters |-> chaingraph.Parameters,
                                     EventsVector |-> chaingraph.EventsVector]]
    /\ UNCHANGED <<otherVars, datasetInfo, opGroup, axisOrder, annotations, learning>>

(***************************************************************************)
(* Specifications.                                                         *)
(***************************************************************************)
vars == <<dsVars, laneVars, appVars>>

Init ==
    /\ DsInit /\ LaneInit /\ IIBoostInit /\ RequestInit
    /\ TrackInit /\ WorkflowInit /\ MainInit
    /\ DatasetInfoInit /\ GroupInit /\ AxisOrderInit /\ AnnotationsInit
    /\ LearningInit /\ ChaingraphInit

\* One OpDataSelection given datasets that differ in where they come from
\* and how they are named, with calls into internal and downstream
\* operators that may raise.
Next ==
    \/ \E slot \in CleanupInputs, info \in WiringInfos \cup {Dataset}, fault \in Faults :
          ConnectInput(slot, info, fault)
    \/ \E slot \in CleanupInputs : DisconnectInput(slot)

Spec == Init /\ [][Next]_vars

\* One OpDataSelection given datasets that differ in their axes.
NextAxes ==
    \/ \E slot \in CleanupInputs, info \in AxesInfos \cup {Dataset} :
          ConnectInput(slot, info, "none")
    \/ \E slot \in CleanupInputs : DisconnectInput(slot)

SpecAxes == Init /\ [][NextAxes]_vars

\* The lanes of one OpMultiLaneDataSelectionGroup.
NextLanes ==
    \/ \E laneIndex \in 0..MaxLanes : AddLane(laneIndex)
    \/ NestedAddLane
    \/ AddLaneReturn
    \/ \E laneIndex \in 0..(MaxLanes - 1), finalLength \in 0..MaxLanes :
          RemoveLane(laneIndex, finalLength)

SpecLanes == Init /\ [][NextLanes]_vars

\* Changes of the input image of one OpIIBoostFeatureSelection.
NextDirty ==
    \/ \E numFeatures \in 1..MaxFeatureChannels : IIBoostSetupOutputs(numFeatures)
    \/ \E roi \in InputRois, partnersFirst \in BOOLEAN : DirtyInputImage(roi, partnersFirst)

SpecDirty == Init /\ [][NextDirty]_vars

\* Requests to the outputs of one OpIIBoostFeatureSelection.
NextExecute ==
    \/ \E numFeatures \in 1..MaxFeatureChannels : IIBoostSetupOutputs(numFeatures)
    \/ \E slot \in {"OutputImage", "CachedOutputImage"}, sameDtype \in BOOLEAN,
          emptyOk \in BOOLEAN :
          \E roi \in OutputRois(outputShape) : Execute(slot, roi, sameDtype, emptyOk)

SpecExecute == Init /\ [][NextExecute]_vars

\* Concurrent requests to the outputs of one OpIIBoostFeatureSelection, run
\* by a pool of workers.
NextRequests ==
    \/ \E c \in 1..MaxRequests, slot \in {"OutputImage", "CachedOutputImage"} :
          StartExecute(c, slot)
    \/ \E c \in 1..MaxRequests : CreateRequests(c)
    \/ \E c \in 1..MaxRequests : Submit(c)
    \/ \E c \in 1..MaxRequests : Wait(c)
    \/ \E c \in 1..MaxRequests : Return(c)
    \/ \E c \in 1..MaxRequests, r \in {"raw", "hev", "feat"} : Complete(c, r)
    \/ \E c \in 1..MaxRequests, r \in {"raw", "hev", "feat"} : Fail(c, r)
    \/ \E c \in 1..MaxRequests : CacheRequest(c)
    \/ CacheStore
    \/ \E c \in 1..MaxRequests : CacheDeliver(c)

SpecRequests == Init /\ [][NextRequests]_vars

\* The Track button of one StructuredTrackingGui; the worker pool runs
\* every submitted request and its callbacks to the end.
NextTrack ==
    \/ \E r \in 1..MaxTrackRequests, objectFeaturesReady \in BOOLEAN :
          OnTrackButtonPressed(r, objectFeaturesReady)
    \/ \E r \in 1..MaxTrackRequests : TrackWorker(r)

SpecTrack ==
    /\ Init /\ [][NextTrack]_vars
    /\ \A r \in 1..MaxTrackRequests : WF_vars(TrackWorker(r))

\* The applets and slots of one ManualTrackingWorkflow.
NextWorkflow ==
    \/ \E a \in BusyApplets, b \in BOOLEAN : SetBusy(a, b)
    \/ \E g \in Graphs : GraphChange(g)
    \/ HandleAppletStateUpdateRequested

SpecWorkflow == Init /\ [][NextWorkflow]_vars

\* The steps of main after it is called.
MainSteps ==
    \/ MainValidate
    \/ \E projectExists \in BOOLEAN : MainPrepare(projectExists)
    \/ MainPreInit
    \/ MainCreateShell
    \/ MainPostInit

\* One run of main for each combination of command-line options.
NextMainArgs ==
    \/ \E args \in ArgSets : MainStart(args, DefaultEnv, DefaultConfig)
    \/ MainSteps

SpecMainArgs == Init /\ [][NextMainArgs]_vars

\* One run of main for each environment and config file.
NextMainConfig ==
    \/ \E args \in LaunchArgs, env \in Envs, config \in Configs :
          MainStart(args, env, config)
    \/ MainSteps

SpecMainConfig == Init /\ [][NextMainConfig]_vars

\* One DatasetInfo updated from JSON namespaces and through its filePath
\* property.
NextJson ==
    \/ \E namespace \in JsonNamespaces : UpdateFromJson(namespace)
    \/ \E newPath \in {Given(<<"a">>), Given(<<"b">>)} : SetFilePath(newPath)

SpecJson == Init /\ [][NextJson]_vars

\* One OpDataSelectionGroup given role lists.
NextGroup ==
    \/ \E roles \in RoleLists : SetDatasetRoles(roles)
    \/ GroupInputChanged

SpecGroup == Init /\ [][NextGroup]_vars

\* The forced axis order for every list of allowed orders and every file.
NextForce ==
    \E force \in ForceLists, path \in DOMAIN Files : ForceAxisOrder(force, path)

SpecForce == Init /\ [][NextForce]_vars

\* The annotations of one crop, classified frame by frame and scanned.
NextType ==
    \/ \E labels \in LabelDicts, crop \in CropTimes : Annotate(labels, crop)
    \/ \E time \in 0..MaxTime, track \in {0 - 1, 1} : Type(time, track)
    \/ ScanAnnotations

SpecType == Init /\ [][NextType]_vars

\* Calls of _runStructuredLearning, one after the other; a call in
\* progress goes on.
NextLearning ==
    \/ \E maxNearestNeighbors \in 1..MaxNeighborsArg, emptyAnnotations \in BOOLEAN :
          RunStructuredLearning(maxNearestNeighbors, emptyAnnotations)
    \/ LearningStep

SpecLearning == Init /\ [][NextLearning]_vars /\ WF_vars(LearningStep)

\* Calls of OpChaingraphTracking.track that return or raise.
NextChaingraph ==
    \/ SetParameters
    \/ \E app \in {"500", "90"}, cplex_timeout \in {None, "30"},
          outcome \in TrackOutcomes, events \in {"events", "other events"} :
          Track(app, cplex_timeout, outcome, events)

SpecChaingraph == Init /\ [][NextChaingraph]_vars

(***************************************************************************)
(* Properties of OpDataSelection.                                          *)
(***************************************************************************)
FailedSetup == call.op = "setupOutputs" /\ call.exc # NoExc
SuccessfulSetup == call.op = "setupOutputs" /\ call.exc = NoExc

\* C1: when an input of a configured OpDataSelection (one whose _opReaders
\* is not empty) becomes unready, then by the time disconnect returns Image
\* and _NonTransposedImage are disconnected, every operator _opReaders held
\* has been cleaned up, in the reverse of the order of creation, and
\* _opReaders is empty.
C1_DisconnectReleasesReaders ==
    (call.op = "disconnect" /\ Len(call.preReaders) > 0) =>
        /\ ~Image.connected
        /\ ~_NonTransposedImage.connected
        /\ Len(call.cleaned) = Len(call.preReaders)
        /\ \A i \in 1..Len(call.preReaders) :
              call.cleaned[i] = call.preReaders[Len(call.preReaders) + 1 - i]
        /\ \A i \in 1..Len(call.preReaders) : call.preReaders[i] \notin children
        /\ _opReaders = <<>>

\* C1, its case: the optional ProjectFile input of an operator with a
\* reader, an injector and a reorderer has been disconnected.
C1_Witness ==
    /\ call.op = "disconnect" /\ call.slot = "ProjectFile"
    /\ Len(call.preReaders) >= 3

\* C2: when setupOutputs raises, no partial wiring remains: every internal
\* operator the call created has been cleaned up, also one created but not
\* yet recorded in _opReaders; _opReaders is empty; Image and
\* _NonTransposedImage are disconnected.
C2_FailedSetupLeavesNoPartialWiring ==
    FailedSetup =>
        /\ \A i \in 1..Len(call.created) : call.created[i] \notin children
        /\ _opReaders = <<>>
        /\ ~Image.connected
        /\ ~_NonTransposedImage.connected

\* C3: when the most recent setupOutputs raised, none of Image,
\* _NonTransposedImage, ImageName and AllowLabels is ready.
C3_FailedSetupLeavesNoOutputReady ==
    FailedSetup =>
        /\ ~Image.connected
        /\ ~_NonTransposedImage.connected
        /\ ImageName = None
        /\ ~AllowLabels.ready

\* C4: setupOutputs never modifies the DatasetInfo it is given, and a call
\* that repeats a successful one with unchanged inputs leaves the same
\* number of live internal operators and the same output wiring.
C4_SetupIsIdempotentAndLeavesDatasetInfo ==
    SuccessfulSetup =>
        /\ Dataset = call.given
        /\ call.repeat =>
              /\ Cardinality(children) = call.preCount
              /\ Image = call.preImage
              /\ _NonTransposedImage = call.preNonT

\* C5: after every successful setupOutputs the Image output has a channel
\* axis 'c', and it is the last axis.
C5_ImageChannelLast ==
    SuccessfulSetup =>
        /\ Image.connected
        /\ Len(Image.keys) > 0
        /\ \A i \in 1..Len(Image.keys) : Image.keys[i] = "c" <=> i = Len(Image.keys)

\* C5, its case: a dataset stored without a channel axis has been set up
\* under a forced axis order.
C5_Witness ==
    /\ SuccessfulSetup
    /\ forceAxisOrder # <<>>
    /\ \A i \in 1..Len(Source(Dataset.filePath).shape.keys) :
          Source(Dataset.filePath).shape.keys[i] # "c"
    /\ Image.keys[Len(Image.keys)] = "c"

\* C6: with forceAxisOrder set, if no allowed order contains every axis of
\* extent > 1 of the dataset the axis-order check looks at, setupOutputs
\* raises DatasetConstraintError naming the 'DataSelection' applet and Image
\* is left disconnected.
C6_IncompatibleAxesRaiseConstraintError ==
    ( /\ call.op = "setupOutputs"
      /\ call.seen.connected
      /\ \A k \in 1..Len(forceAxisOrder) :
            \E i \in 1..Len(call.seen.keys) :
               /\ call.seen.extents[i] > 1
               /\ \A j \in 1..Len(forceAxisOrder[k]) :
                     forceAxisOrder[k][j] # call.seen.keys[i] )
    =>  /\ call.exc.type = "DatasetConstraintError"
        /\ call.exc.appletName = "DataSelection"
        /\ ~Image.connected

\* C6, its case: a dataset with a time axis of extent 2 has been refused.
C6_Witness ==
    /\ call.op = "setupOutputs"
    /\ call.exc.type = "DatasetConstraintError"
    /\ \E i \in 1..Len(call.seen.keys) :
          call.seen.keys[i] = "t" /\ call.seen.extents[i] = 2

(***************************************************************************)
(* Properties of OpMultiLaneDataSelectionGroup.                            *)
(***************************************************************************)
\* C7: with n lanes, addLane(n) yields n+1 inner operators: the first n are
\* the same objects as before, in the same order, and the new one, at index
\* n, has its broadcast inputs ProjectFile, ProjectDataGroup,
\* WorkingDirectory and DatasetRoles wired.
C7_AddLaneAtEndAppends ==
    (laneCall.op = "addLane" /\ laneCall.laneIndex = Len(laneCall.pre)) =>
        LET n == Len(laneCall.pre)
        IN  /\ Len(innerOperators) = n + 1
            /\ \A i \in 1..n : innerOperators[i] = laneCall.pre[i]
            /\ \A i \in 1..n : innerOperators[n + 1].id # laneCall.pre[i].id
            /\ innerOperators[n + 1].broadcast =
                  {"ProjectFile", "ProjectDataGroup", "WorkingDirectory", "DatasetRoles"}

\* C7, its case: lane 2 has been added to a wrapper of 2 lanes.
C7_Witness ==
    /\ laneCall.op = "addLane" /\ laneCall.laneIndex = 2
    /\ Len(laneCall.pre) = 2 /\ lanePc = "idle"

\* C8, as claimed: for any index in 0..n, addLane(index) leaves n+1 lanes,
\* the new replica at position index and every lane formerly at j >= index
\* at j+1.
C8_AddLaneInsertsAnywhere ==
    (laneCall.op = "addLane" /\ laneCall.laneIndex <= Len(laneCall.pre)) =>
        LET n == Len(laneCall.pre)
            index == laneCall.laneIndex
        IN  /\ Len(innerOperators) = n + 1
            /\ \A i \in 1..n : innerOperators[index + 1].id # laneCall.pre[i].id
            /\ \A j \in (index + 1)..n : innerOperators[j + 1] = laneCall.pre[j]

\* C8, amended: addLane(index) adds a replica only when index = n, and then
\* at the end; for an index below n it changes nothing.
C8_AddLaneOnlyAppends ==
    (laneCall.op = "addLane" /\ laneCall.laneIndex <= Len(laneCall.pre)) =>
        LET n == Len(laneCall.pre)
        IN  IF laneCall.laneIndex = n
            THEN /\ Len(innerOperators) = n + 1
                 /\ \A i \in 1..n : innerOperators[n + 1].id # laneCall.pre[i].id
                 /\ \A j \in 1..n : innerOperators[j] = laneCall.pre[j]
            ELSE innerOperators = laneCall.pre

\* C8, its case: addLane(0) has been called on a wrapper of 2 lanes.
C8_Witness ==
    /\ laneCall.op = "addLane" /\ laneCall.laneIndex = 0
    /\ Len(laneCall.pre) = 2

\* C9: with n lanes, removeLane(index, n-1) leaves n-1 lanes, the remaining
\* ones in their order; with n <= finalLength the call changes nothing.
C9_RemoveLaneCompacts ==
    laneCall.op = "removeLane" =>
        LET n == Len(laneCall.pre)
            index == laneCall.laneIndex
        IN  /\ n <= laneCall.finalLength => innerOperators = laneCall.pre
            /\ laneCall.finalLength = n - 1 =>
                  /\ Len(innerOperators) = n - 1
                  /\ \A j \in 1..index : innerOperators[j] = laneCall.pre[j]
                  /\ \A j \in (index + 1)..(n - 1) : innerOperators[j] = laneCall.pre[j + 1]

\* C9, its case: the middle lane of 3 has been removed.
C9_Witness ==
    /\ laneCall.op = "removeLane" /\ laneCall.laneIndex = 1
    /\ Len(laneCall.pre) = 3 /\ laneCall.finalLength = 2
    /\ Len(innerOperators) = 2

\* C10: every outermost addLane or removeLane changes the number of inner
\* operators by at most one, and an addLane(i) made again from within the
\* insertSlot signal of an outer addLane(i) adds no second lane.
C10_LanesChangeOneAtATime ==
    /\ Len(innerOperators) <= Len(laneCall.pre) + 1
    /\ Len(laneCall.pre) <= Len(innerOperators) + 1
    /\ laneCall.nested > 0 => Len(innerOperators) = Len(laneCall.pre) + 1

\* C10, its case: the outer addLane has returned after a nested addLane.
C10_Witness ==
    /\ laneCall.op = "addLane" /\ laneCall.nested > 0 /\ lanePc = "idle"

(***************************************************************************)
(* Properties of OpIIBoostFeatureSelection.                                *)
(***************************************************************************)
\* Region r has the spatial extent of region q and the channels [0, n).
CoversAllChannels(r, q, n) ==
    /\ Front(r.start) = Front(q.start) /\ Front(r.stop) = Front(q.stop)
    /\ Last(r.start) = 0 /\ Last(r.stop) = n

\* C11: after InputImage is dirtied over a region R, OutputImage has been
\* marked dirty over a region with R's spatial extent and all the output
\* channels [0, num_channels).
C11_OutputImageDirtyCoversAllChannels ==
    dirtyCall.op = "setDirty" =>
        \E r \in dirtied["OutputImage"] :
            CoversAllChannels(r, dirtyCall.roi, Last(dirtyCall.shape))

\* C12: after InputImage is dirtied over a region R, every propagateDirty
\* of the chain has completed without error and opConvertToChannels.Output
\* has been marked dirty over R's spatial extent and all 9 channels.
C12_HessianChainPropagatesDirty ==
    dirtyCall.op = "setDirty" =>
        /\ dirtyCall.exc = None
        /\ \E r \in dirtied["opConvertToChannels.Output"] :
              CoversAllChannels(r, dirtyCall.roi, HessianChannels)

\* C13: after every change of an input, both OutputImage and
\* CachedOutputImage have been marked dirty.
C13_BothOutputsMarkedDirty ==
    dirtyCall.op = "setDirty" =>
        /\ dirtied["OutputImage"] # {}
        /\ dirtied["CachedOutputImage"] # {}

\* Channel j of the output image: the raw input, a hessian eigenvector
\* element, or a channel of the inner feature operator, over the roi's
\* spatial region.
ExpectedChannel(slot, roi, j) ==
    IF j = 0 THEN Data("InputImage", 0, Front(roi.start), Front(roi.stop))
    ELSE IF j < ExtraChannels
    THEN Data(hevSource(slot), j - 1, Front(roi.start), Front(roi.stop))
    ELSE Data(featSource(slot), j - ExtraChannels, Front(roi.start), Front(roi.stop))

\* C14: execute fills exactly the requested region: for every roi inside
\* the declared shape it completes, and channel k of the result holds
\* output channel roi.start[c] + k.
C14_ExecuteFillsRequestedRegion ==
    execCall.op = "execute" =>
        /\ execCall.exc = None
        /\ Len(execCall.result) = Last(execCall.roi.stop) - Last(execCall.roi.start)
        /\ \A k \in 0..(Len(execCall.result) - 1) :
              execCall.result[k + 1] =
                  ExpectedChannel(execCall.slot, execCall.roi, Last(execCall.roi.start) + k)


\* C15: in every execute, the hessian and the feature sub-request have both
\* been submitted when either of them is waited on, and execute returns
\* only when the raw request and both sub-requests have completed, in
\* whatever order the workers complete them.
C15_SubRequestsSubmittedThenJoined ==
    \A c \in 1..MaxRequests :
        /\ (Running(c) /\ Statement(c) \in {"hev_req.wait", "feat_req.wait"}) =>
              /\ executing[c].req["hev"] \notin {"none", "created"}
              /\ executing[c].req["feat"] \notin {"none", "created"}
        /\ executing[c].outcome = "returned" =>
              \A r \in {"raw", "hev", "feat"} : executing[c].req[r] = "done"

\* C15, its case: an execute has returned whose feature sub-request
\* completed before its hessian sub-request.
C15_Witness ==
    \E c \in 1..MaxRequests :
        /\ executing[c].outcome = "returned"
        /\ executing[c].finished = <<"raw", "feat", "hev">>

(***************************************************************************)
(* Properties of StructuredTrackingGui.                                    *)
(***************************************************************************)
\* C16: every tracking request that has set applet.busy is eventually
\* followed by exactly one of its callbacks, which leaves applet.busy False
\* and the Track button enabled, however the request's body ends.
C16_BusyEventuallyReset ==
    \A r \in 1..MaxTrackRequests :
        (trackRequests[r].pc = "busy") ~>
            (/\ trackRequests[r].pc = "notified"
             /\ trackRequests[r].callbacks = 1
             /\ ~trackRequests[r].left.busy
             /\ trackRequests[r].left.TrackButton)

\* C16, its case: a request whose body raised has been followed by
\* _handle_failure, which cleared applet.busy.
C16_Witness ==
    \E r \in 1..MaxTrackRequests :
        /\ trackRequests[r].pc = "notified"
        /\ trackRequests[r].outcome = "raised"
        /\ trackRequests[r].callback = "_handle_failure"
        /\ ~busy

(***************************************************************************)
(* Properties of ManualTrackingWorkflow.                                   *)
(***************************************************************************)
\* C17: after every handleAppletStateUpdateRequested, if the data
\* selection, data export or tracking applet is busy, then project changes
\* and all five applets are disabled.
C17_BusyDisablesEverything ==
    (shell.current /\ \E a \in BusyApplets : appletBusy[a]) =>
        /\ ~shell.projectChanges
        /\ \A a \in Applets : ~shell.enabled[a]

\* C17, its case: only the tracking applet is busy, every slot is ready,
\* and the handler has disabled everything.
C17_Witness ==
    /\ shell.current
    /\ appletBusy = [a \in BusyApplets |-> a = "trackingApplet"]
    /\ graph = [numLanes |-> 1, ready |-> [f \in GraphFlags |-> TRUE]]
    /\ \A a \in Applets : ~shell.enabled[a]

(***************************************************************************)
(* Properties of the block cache of OpIIBoostFeatureSelection.             *)
(***************************************************************************)
\* C18: however many concurrent requests to CachedOutputImage reach the
\* same uncached block of opHessianEigenvectorCache, they cause exactly one
\* call of opConvertToChannels.execute, and each of them receives the data
\* that call computed.
C18_OneUpstreamExecutePerBlock ==
    /\ convertExecutes["CachedOutputImage"] <= 1
    /\ \A c \in 1..MaxRequests :
          (executing[c].slot = "CachedOutputImage" /\ executing[c].req["hev"] = "done") =>
              /\ convertExecutes["CachedOutputImage"] = 1
              /\ executing[c].hevData = "eigenvectors"
    /\ \A c, d \in 1..MaxRequests :
          (/\ executing[c].slot = "CachedOutputImage" /\ executing[c].req["hev"] = "done"
           /\ executing[d].slot = "CachedOutputImage" /\ executing[d].req["hev"] = "done") =>
              executing[c].hevData = executing[d].hevData

\* C18, its case: every request is one to CachedOutputImage, all have
\* reached the cache while the block is being computed, and a single
\* upstream call has been made.
C18_Witness ==
    /\ \A c \in 1..MaxRequests :
          /\ executing[c].slot = "CachedOutputImage"
          /\ executing[c].req["hev"] = "waiting"
    /\ cacheBlock.state = "pending"
    /\ convertExecutes["CachedOutputImage"] = 1

(***************************************************************************)
(* Properties of ilastik_main.main.                                        *)
(***************************************************************************)
\* The worker-thread count in effect: LAZYFLOW_THREADS when it is set,
\* otherwise the config file's value unless that is -1.
EffectiveThreadCount(env, config) ==
    IF env.LAZYFLOW_THREADS.given THEN Number(int(env.LAZYFLOW_THREADS.text))
    ELSE IF config.threads = 0 - 1 THEN NoNumber
    ELSE Number(config.threads)

\* C19: the thread pool is not reset before pre-init, and once pre-init has
\* run it has been reset exactly if a thread count n is in effect (0
\* included), and then with n threads.
C19_PoolResetIffThreadCountDefined ==
    /\ ~main.preinit => ~main.lazyflow.poolReset
    /\ main.preinit =>
          LET n == EffectiveThreadCount(main.env, main.config)
          IN  /\ main.lazyflow.poolReset = n.defined
              /\ n.defined => main.lazyflow.threads = n.value

\* C19, its case: LAZYFLOW_THREADS=0 overrides the config file's 2 threads
\* and pre-init has reset the pool with 0 threads.
C19_Witness ==
    /\ main.preinit
    /\ main.env.LAZYFLOW_THREADS = Given(<<"0">>)
    /\ main.config.threads = 2
    /\ main.lazyflow.poolReset /\ main.lazyflow.threads = 0

\* The incompatible arguments: --workflow without --new_project,
\* --new_project without --workflow, --project with --new_project, or
\* --headless with a recording, playback or window option.
IncompatibleArgs(args) ==
    \/ args.workflow.given /\ ~args.new_project.given
    \/ ~args.workflow.given /\ args.new_project.given
    \/ args.project.given /\ args.new_project.given
    \/ /\ args.headless
       /\ \/ args.start_recording
          \/ args.playback_script.given
          \/ args.fullscreen
          \/ args.exit_on_failure
          \/ args.exit_on_success

\* C20: once main is past its validation, incompatible arguments have made
\* it exit with status 1, no pre-init function has run and no shell exists.
C20_IncompatibleArgsExitEarly ==
    (main.pc \notin {"init", "validate"} /\ IncompatibleArgs(main.args)) =>
        /\ main.pc = "exited"
        /\ main.exit = Number(1)
        /\ ~main.preinit
        /\ main.shell = None



(***************************************************************************)
(* Properties of DatasetInfo.                                              *)
(***************************************************************************)
\* C21: updateFromJson updates only the fields whose value in the namespace
\* is not None: when the namespace gives no filepath, filePath and datasetId
\* are after the call what they were before it, and every other field the
\* namespace gives no value for is unchanged.
C21_UpdateFromJsonKeepsAbsentFields ==
    datasetInfo.op = "updateFromJson" =>
        LET ns == datasetInfo.namespace
            b == datasetInfo.before
            a == datasetInfo.info
        IN  /\ ~ns.filepath.given =>
                  a._filePath = b._filePath /\ a._datasetId = b._datasetId
            /\ ~ns.drange.given => a.drange = b.drange
            /\ ~ns.nickname.given => a.nickname = b.nickname
            /\ ~ns.axistags.given => a.axistags = b.axistags
            /\ ~ns.subvolume_roi.given => a.subvolume_roi = b.subvolume_roi

(***************************************************************************)
(* Properties of OpDataSelectionGroup.                                     *)
(***************************************************************************)
\* C22: after every setupOutputs of OpDataSelectionGroup, from any state
\* including a constructed operator whose DatasetRoles value is the empty
\* list, with n datasets: Image, Image1, Image2 are connected to inner
\* image k = 0, 1, 2 exactly when n > k and are otherwise disconnected and
\* marked not ready; ImageName and AllowLabels are connected to dataset 0
\* when n > 0 and disconnected and not ready when n = 0; and setupOutputs
\* does not raise.
C22_ConvenienceOutputsReflectDatasets ==
    opGroup.op = "setupOutputs" =>
        LET n == Len(opGroup.DatasetRoles)
            needs == [Image |-> 0, Image1 |-> 1, Image2 |-> 2,
                      ImageName |-> 0, AllowLabels |-> 0]
        IN  /\ opGroup.exc = None
            /\ \A o \in DOMAIN GroupOutputs :
                  IF n > needs[o]
                  THEN opGroup.out[o].connected = GroupOutputs[o]
                  ELSE opGroup.out[o].connected = None /\ opGroup.out[o].NOTREADY

(***************************************************************************)
(* Properties of the forced axis order.                                    *)
(***************************************************************************)
\* The allowed order at position k has every axis of extent > 1 that the
\* dataset has.
Compatible(k) ==
    \A i \in 1..Len(axisOrder.seen.keys) :
        axisOrder.seen.extents[i] > 1 =>
            \E j \in 1..Len(axisOrder.force[k]) :
                axisOrder.force[k][j] = axisOrder.seen.keys[i]

\* C23: with forceAxisOrder set and at least one compatible allowed order,
\* the order setupOutputs applies is a shortest allowed order among those
\* that contain every non-singleton axis of the dataset, the earliest such
\* one in the list when several have that length; so no axis of extent > 1
\* is dropped.
C23_ShortestCompatibleOrderApplied ==
    ( /\ axisOrder.op = "setupOutputs"
      /\ \E k \in 1..Len(axisOrder.force) : Compatible(k) )
    =>  /\ axisOrder.exc = NoExc
        /\ \E k \in 1..Len(axisOrder.force) :
              /\ Compatible(k)
              /\ axisOrder.applied = axisOrder.force[k]
              /\ \A m \in 1..Len(axisOrder.force) :
                    Compatible(m) =>
                        /\ Len(axisOrder.force[k]) <= Len(axisOrder.force[m])
                        /\ (m < k => Len(axisOrder.force[m]) > Len(axisOrder.force[k]))

\* C23, its case: the list begins with a longer compatible order, holds two
\* compatible orders of the shortest length, and the first of these was
\* applied to a dataset that has a third axis of extent 1.
C23_Witness ==
    /\ axisOrder.op = "setupOutputs"
    /\ axisOrder.force = << <<"z", "y", "x", "c">>, <<"x", "y", "c">>, <<"y", "x", "c">> >>
    /\ axisOrder.seen.keys = <<"z", "y", "x">>
    /\ axisOrder.seen.extents = <<1, 2, 2>>
    /\ axisOrder.applied = <<"x", "y", "c">>

(***************************************************************************)
(* Properties of OpStructuredTracking.                                     *)
(***************************************************************************)
\* The track is annotated at frame t of the crop.
Annotated(t) ==
    /\ t \in annotations.crop.lo..annotations.crop.hi
    /\ annotations.labels[t].present
    /\ annotations.labels[t].label # 0

\* The track annotated at frame t has a gap: it is absent from frame t-1
\* but present in an earlier frame of the crop, or absent from frame t+1
\* but present in a later one.
Gapped(t) ==
    /\ Annotated(t)
    /\ \/ ~Annotated(t - 1) /\ \E u \in annotations.crop.lo..(t - 2) : Annotated(u)
       \/ ~Annotated(t + 1) /\ \E u \in (t + 2)..annotations.crop.hi : Annotated(u)

\* C24: structured learning rejects discontinuous tracks: for a track that
\* has a gap at frame t, _type returns None, never FIRST, INTERMEDIATE, LAST
\* or SINGLETON, and _runStructuredLearning raises DatasetConstraintError
\* with the 'tracks must be continuous' message.
C24_GappedTracksRejected ==
    /\ ( /\ annotations.op = "_type"
         /\ annotations.track = 1
         /\ Gapped(annotations.time) )
       => annotations.result = TypeResult(None, 0 - 1, NoExc)
    /\ ( /\ annotations.op = "scan"
         /\ \E t \in 0..MaxTime : Gapped(t) )
       => annotations.exc = DatasetConstraintError("Structured Learning")

\* C25: every return path of _runStructuredLearning (empty annotations, an
\* untrained crop, training arcs not found, successful learning) returns the
\* five weights in the order detection, division, transition, appearance,
\* disappearance.
C25_WeightsReturnedInOneOrder ==
    (learning.pc = "done" /\ learning.exc = NoExc) =>
        learning.returned =
            << learning.weights.DetectionWeight, learning.weights.DivisionWeight,
               learning.weights.TransitionWeight, learning.weights.AppearanceWeight,
               learning.weights.DisappearanceWeight >>

\* C26: the first hypotheses graph is built with exactly the caller's
\* maxNearestNeighbors, for every value from 1 to 10, and the neighbour
\* count is raised by one only after an attempt in which not all annotated
\* arcs were found.
C26_FirstGraphUsesCallersNeighbors ==
    (learning.attempts # <<>> /\ learning.maxNearestNeighbors \in 1..10) =>
        /\ learning.attempts[1].max_nearest_neighbors = learning.maxNearestNeighbors
        /\ \A i \in 2..Len(learning.attempts) :
              /\ learning.attempts[i].max_nearest_neighbors
                    = learning.attempts[i - 1].max_nearest_neighbors + 1
              /\ learning.attempts[i - 1].outcome = "notFound"

\* C27: the nearest-neighbour search loop terminates for every input: it
\* runs at most 9 times, never builds a hypotheses graph with
\* max_nearest_neighbors greater than 10, and stops as soon as all annotated
\* arcs are found; when the loop ends without finding all arcs the function
\* returns the current weights without training.
C27_SearchLoopTerminates ==
    /\ [](/\ Len(learning.attempts) <= 9
          /\ \A i \in 1..Len(learning.attempts) :
                /\ learning.attempts[i].max_nearest_neighbors <= 10
                /\ learning.attempts[i].outcome = "foundAllArcs"
                      => i = Len(learning.attempts)
          /\ learning.path = "notFound" =>
                /\ learning.pc = "done"
                /\ learning.trainCalls = 0
                /\ learning.weights = learning.entry
                /\ {learning.returned[i] : i \in 1..5}
                      = {learning.weights[k] : k \in DOMAIN learning.weights})
    /\ (learning.pc = "loop") ~> (learning.pc = "done")

\* C27, its case: nine graphs were built, the last with 10 neighbours, none
\* had all the arcs, and the call has returned.
C27_Witness ==
    /\ learning.pc = "done"
    /\ learning.path = "notFound"
    /\ Len(learning.attempts) = 9
    /\ learning.attempts[9].max_nearest_neighbors = 10

(***************************************************************************)
(* Properties of OpChaingraphTracking.                                     *)
(***************************************************************************)
\* C28: if track raises (Parameters not ready, a frame with zero objects,
\* tracker failure, or an events vector of length zero), the values held by
\* the Parameters and EventsVector slots are what they were before the
\* call: the dict read from Parameters has no key or value written by the
\* failed call.
C28_FailedTrackLeavesSlots ==
    (chaingraph.op = "track" /\ chaingraph.exc # NoExc) =>
        /\ chaingraph.Parameters = chaingraph.before.Parameters
        /\ chaingraph.EventsVector = chaingraph.before.EventsVector

=============================================================================
